---- MODULE Spec2Model ----
(***************************************************************************)
(* Review collection and normalisation of the persona pipeline:            *)
(* ShopifyReviewScraper (shopify_review_scraper.py) driven by              *)
(* ShopifyIntegrator (integrate_shopify_scraper.py).                       *)
(*                                                                         *)
(* A run is one call of ShopifyIntegrator.scrape_and_integrate.  Python    *)
(* strings whose characters matter (tier names, review ids) are sequences  *)
(* of one-character strings.  What a URL serves is the environment: a      *)
(* store descriptor drawn when the scrape of that target begins.           *)
(***************************************************************************)
EXTENDS Integers, Sequences, FiniteSets, TLC

(***************************************************************************)
(* Bounds of the model.                                                    *)
(***************************************************************************)
\* largest number of competitor URLs handed to one run
MaxCompetitors == 2

(***************************************************************************)
(* Small helpers.                                                          *)
(***************************************************************************)
Min(a, b) == IF a < b THEN a ELSE b

Max0(a) == IF a < 0 THEN 0 ELSE a

\* s[:n] of a Python list
Take(s, n) == SubSeq(s, 1, Min(n, Len(s)))

RECURSIVE SumSeq(_)
SumSeq(s) == IF s = <<>> THEN 0 ELSE Head(s) + SumSeq(Tail(s))

(***************************************************************************)
(* Strings: str.lower() and the f-string formats of the review ids.        *)
(***************************************************************************)
UpperChars == <<"A", "B", "C", "D", "E", "F", "G", "H", "I", "J", "K", "L", "M",
                "N", "O", "P", "Q", "R", "S", "T", "U", "V", "W", "X", "Y", "Z">>

LowerChars == <<"a", "b", "c", "d", "e", "f", "g", "h", "i", "j", "k", "l", "m",
                "n", "o", "p", "q", "r", "s", "t", "u", "v", "w", "x", "y", "z">>

LowerChar(c) ==
    IF \E i \in 1..Len(UpperChars) : UpperChars[i] = c
    THEN LowerChars[CHOOSE i \in 1..Len(UpperChars) : UpperChars[i] = c]
    ELSE c

\* tier.lower()
Lower(s) == [i \in 1..Len(s) |-> LowerChar(s[i])]

DigitChars == <<"0", "1", "2", "3", "4", "5", "6", "7", "8", "9">>

RECURSIVE Digits(_)
Digits(n) ==
    IF n < 10 THEN <<DigitChars[n + 1]>>
    ELSE Digits(n \div 10) \o <<DigitChars[(n % 10) + 1]>>

RECURSIVE ZeroPad(_, _)
ZeroPad(s, w) == IF Len(s) >= w THEN s ELSE ZeroPad(<<"0">> \o s, w)

\* f"R{self.review_counter:03d}"
ReviewId(n) == <<"R">> \o ZeroPad(Digits(n), 3)

\* faulty variant: a competitor review keeps its store-local id
CompetitorReviewIdNoTag(i, rid) == rid

\* f"C{i}-{review['review_id']}"
CompetitorReviewId(i, rid) == <<"C">> \o Digits(i) \o <<"-">> \o rid

(***************************************************************************)
(* Tiers.                                                                  *)
(***************************************************************************)
TierBasic == <<"b", "a", "s", "i", "c">>
TierPremium == <<"p", "r", "e", "m", "i", "u", "m">>
TierEnterprise == <<"e", "n", "t", "e", "r", "p", "r", "i", "s", "e">>
TierPro == <<"p", "r", "o">>

BasicLimit == 20
HigherLimit == 200

\* ShopifyReviewScraper.TIER_LIMITS, as a set of (key, value) pairs
TIER_LIMITS == { <<TierBasic, BasicLimit>>, <<TierPremium, HigherLimit>>,
                 <<TierEnterprise, HigherLimit>>, <<TierPro, HigherLimit>> }

\* self.TIER_LIMITS.get(self.tier, 20)
TierLimitOf(t) ==
    IF \E kv \in TIER_LIMITS : kv[1] = t
    THEN (CHOOSE kv \in TIER_LIMITS : kv[1] = t)[2]
    ELSE 20

\* the tier strings a caller passes to the constructor
TierInputs == { TierBasic, TierPremium, TierEnterprise, TierPro,
                <<"P", "r", "e", "m", "i", "u", "m">>,
                <<"g", "o", "l", "d">> }

(***************************************************************************)
(* A collected review: n is the value of review_counter its review_id was  *)
(* formatted from, src is its "source" field, text is [a, b]: a names the  *)
(* first 50 characters of its text, b the rest of its first 100.           *)
(***************************************************************************)
Text(a, b) == [a |-> a, b |-> b]

\* text[:50]
Key50(t) == t.a

\* text[:100]
Key100(t) == <<t.a, t.b>>

Review(n, text, src) == [n |-> n, text |-> text, src |-> src]

(***************************************************************************)
(* _try_judge_me_api.  jm describes what judge.me answers for the store:   *)
(* url is the base URL pattern (1..3) that knows the shop (0: none, the    *)
(* others answer with an HTTP error), avail the reviews it pages out       *)
(* per_page at a time, bad the 1-based position of a review whose JSON     *)
(* makes the record construction raise (0: none).                          *)
(***************************************************************************)
JmPerPage == 50

JmBaseUrls == 3

JmResponse(jm, u, page) ==
    IF jm.url # u
    THEN [status |-> 404, n |-> 0, bad |-> 0, start |-> 0]
    ELSE LET start == (page - 1) * JmPerPage
             n == Min(JmPerPage, Max0(jm.avail - start))
         IN [status |-> 200, n |-> n, start |-> start,
             bad |-> IF jm.bad > start /\ jm.bad <= start + n
                     THEN jm.bad - start ELSE 0]

\* the records of one page that pass "if len(all_reviews) >= self.max_reviews: break"
JmPageTake(all, n, max) == IF Len(all) >= max THEN 0 ELSE n

RECURSIVE JmPaginate(_, _, _, _, _, _)
JmPaginate(jm, u, page, all, ctr, max) ==
    IF Len(all) >= max THEN [reviews |-> all, ctr |-> ctr]
    ELSE LET r == JmResponse(jm, u, page)
         IN IF r.status # 200 THEN [reviews |-> all, ctr |-> ctr]
            ELSE IF r.n = 0 THEN [reviews |-> all, ctr |-> ctr]
            ELSE IF r.bad > 0
                 THEN \* the exception drops page_reviews, not the counter
                      [reviews |-> all, ctr |-> ctr + r.bad - 1]
            ELSE LET k == JmPageTake(all, r.n, max)
                     page_reviews == [j \in 1..k |->
                                        Review(ctr + j - 1, Text(r.start + j, 0), "judge.me")]
                     all2 == all \o page_reviews
                 IN IF k < JmPerPage
                    THEN [reviews |-> all2, ctr |-> ctr + k]
                    ELSE JmPaginate(jm, u, page + 1, all2, ctr + k, max)

RECURSIVE JmUrls(_, _, _, _)
JmUrls(jm, u, ctr, max) ==
    IF u > JmBaseUrls THEN [reviews |-> <<>>, ctr |-> ctr]
    ELSE LET r == JmPaginate(jm, u, 1, <<>>, ctr, max)
         IN IF r.reviews # <<>> THEN r ELSE JmUrls(jm, u + 1, r.ctr, max)

TryJudgeMeApi(jm, ctr, max) == JmUrls(jm, 1, ctr, max)

(***************************************************************************)
(* _try_shopify_product_api.  sp.ok: /products.json answered 200 with      *)
(* JSON; sp.products: its product entries, each [kind, n, bad]: kind       *)
(* "ok" (handle and a "reviews" list of n entries, entry bad raising),     *)
(* "nohandle", "noreviews" (non-200 or no "reviews" key), "malformed"      *)
(* (entry is not an object: product.get raises outside the inner try).     *)
(***************************************************************************)
SpMaxProducts == 5

RECURSIVE SpProducts(_, _, _, _)
SpProducts(products, i, reviews, ctr) ==
    IF i > Len(products) THEN [reviews |-> reviews, ctr |-> ctr]
    ELSE LET p == products[i]
         IN IF p.kind = "malformed" THEN [reviews |-> <<>>, ctr |-> ctr]
            ELSE IF p.kind # "ok" THEN SpProducts(products, i + 1, reviews, ctr)
            ELSE LET k == IF p.bad > 0 /\ p.bad <= p.n THEN p.bad - 1 ELSE p.n
                     got == [j \in 1..k |->
                               Review(ctr + j - 1, Text(i * 1000 + j, 0), "shopify_native")]
                 IN SpProducts(products, i + 1, reviews \o got, ctr + k)

TryShopifyProductApi(sp, ctr) ==
    IF ~sp.ok THEN [reviews |-> <<>>, ctr |-> ctr]
    ELSE SpProducts(Take(sp.products, SpMaxProducts), 1, <<>>, ctr)

(***************************************************************************)
(* _try_yotpo_api.  yo.key: the store page answered 200 and holds a Yotpo  *)
(* app key; avail and bad as for judge.me.                                 *)
(***************************************************************************)
YoPerPage == 100

YoResponse(yo, page) ==
    LET start == (page - 1) * YoPerPage
        n == Min(YoPerPage, Max0(yo.avail - start))
    IN [status |-> 200, n |-> n, start |-> start,
        bad |-> IF yo.bad > start /\ yo.bad <= start + n
                THEN yo.bad - start ELSE 0]

YoPageTake(all, n, max) == IF Len(all) >= max THEN 0 ELSE n

RECURSIVE YoPaginate(_, _, _, _, _)
YoPaginate(yo, page, all, ctr, max) ==
    IF Len(all) >= max THEN [reviews |-> all, ctr |-> ctr]
    ELSE LET r == YoResponse(yo, page)
         IN IF r.status # 200 THEN [reviews |-> all, ctr |-> ctr]
            ELSE IF r.bad > 0
                 THEN [reviews |-> all, ctr |-> ctr + r.bad - 1]
            ELSE LET k == YoPageTake(all, r.n, max)
                     page_reviews == [j \in 1..k |->
                                        Review(ctr + j - 1, Text(r.start + j, 0), "yotpo")]
                     all2 == all \o page_reviews
                 IN IF k < YoPerPage
                    THEN [reviews |-> all2, ctr |-> ctr + k]
                    ELSE YoPaginate(yo, page + 1, all2, ctr + k, max)

TryYotpoApi(yo, ctr, max) ==
    IF ~yo.key THEN [reviews |-> <<>>, ctr |-> ctr]
    ELSE YoPaginate(yo, 1, <<>>, ctr, max)

(***************************************************************************)
(* Selenium fallback.  A rendered page is [shown, near, dups, pages,       *)
(* sticky]: every view holds shown review elements with pairwise           *)
(* different texts, then near elements whose text equals the first         *)
(* element's in its first 50 characters only, then dups elements repeating *)
(* the first element's text; pages views are reachable through the         *)
(* load-more / next control, and sticky says the control stays clickable   *)
(* on the last view.                                                       *)
(***************************************************************************)
SelPerSelector == 20

MaxAttempts == 10

SelProductLinks == 5

\* texts of the elements the review selector matches on view q
ElementTexts(pd, q) ==
    IF q > pd.pages THEN <<>>
    ELSE [j \in 1..(pd.shown + pd.near + pd.dups) |->
            IF j <= pd.shown THEN Text(q * 100 + j, 0)
            ELSE IF j <= pd.shown + pd.near THEN Text(q * 100 + 1, j)
            ELSE Text(q * 100 + 1, 0)]

\* "Remove duplicates" of _extract_reviews_selenium: first text[:100] wins
RECURSIVE UniqueByKey100(_, _, _)
UniqueByKey100(reviews, seen, out) ==
    IF reviews = <<>> THEN out
    ELSE LET r == Head(reviews)
         IN IF Key100(r.text) \in seen
            THEN UniqueByKey100(Tail(reviews), seen, out)
            ELSE UniqueByKey100(Tail(reviews), seen \cup {Key100(r.text)},
                                Append(out, r))

\* _extract_reviews_selenium with _parse_review_element on every element
ExtractReviewsSelenium(pd, q, ctr) ==
    LET texts == Take(ElementTexts(pd, q), SelPerSelector)
        parsed == [j \in 1..Len(texts) |->
                     Review(ctr + j - 1, texts[j], "selenium_scrape")]
    IN [reviews |-> UniqueByKey100(parsed, {}, <<>>), ctr |-> ctr + Len(texts)]

\* _try_load_more_reviews: is there a control to click, and the view after it
CanLoadMore(pd, q) == q < pd.pages \/ pd.sticky

ViewAfterClick(pd, q) == IF q < pd.pages THEN q + 1 ELSE q

\* "Add new reviews (avoid duplicates)" of _extract_reviews_with_pagination
RECURSIVE NewReviews(_, _, _, _, _)
NewReviews(page_reviews, existing, new, nall, max) ==
    IF page_reviews = <<>> THEN new
    ELSE LET r == Head(page_reviews)
         IN IF Key50(r.text) \notin existing /\ nall + Len(new) < max
            THEN NewReviews(Tail(page_reviews), existing \cup {Key50(r.text)},
                            Append(new, r), nall, max)
            ELSE NewReviews(Tail(page_reviews), existing, new, nall, max)

RECURSIVE PaginationLoop(_, _, _, _, _, _)
PaginationLoop(pd, q, all, attempt, ctr, max) ==
    IF ~(Len(all) < max /\ attempt < MaxAttempts)
    THEN [reviews |-> all, ctr |-> ctr, attempts |-> attempt]
    ELSE LET ex == ExtractReviewsSelenium(pd, q, ctr)
             existing == {Key50(all[i].text) : i \in 1..Len(all)}
             new == NewReviews(ex.reviews, existing, <<>>, Len(all), max)
             all2 == all \o new
         IN IF new = <<>>
            THEN IF ~CanLoadMore(pd, q)
                 THEN [reviews |-> all2, ctr |-> ex.ctr, attempts |-> attempt + 1]
                 ELSE PaginationLoop(pd, ViewAfterClick(pd, q), all2,
                                     attempt + 1, ex.ctr, max)
            ELSE PaginationLoop(pd, q, all2, attempt + 1, ex.ctr, max)

\* faulty variant: one review more than max_reviews is let in
ExtractReviewsWithPaginationLoose(pd, ctr, max) ==
    PaginationLoop(pd, 1, <<>>, 0, ctr, max + 1)

ExtractReviewsWithPagination(pd, ctr, max) ==
    PaginationLoop(pd, 1, <<>>, 0, ctr, max)

RECURSIVE SelProductPages(_, _, _, _, _, _)
SelProductPages(se, i, n, reviews, ctr, max) ==
    IF i > n \/ Len(reviews) >= max THEN [reviews |-> reviews, ctr |-> ctr]
    ELSE LET r == ExtractReviewsWithPagination(se.prod, ctr, max)
         IN SelProductPages(se, i + 1, n, reviews \o r.reviews, r.ctr, max)

\* _scrape_with_selenium; se.ok: the driver starts and the page loads
ScrapeWithSelenium(se, ctr, max) ==
    IF ~se.ok THEN [reviews |-> <<>>, products |-> <<>>, ctr |-> ctr]
    ELSE LET products == [i \in 1..se.nproducts |-> i]
             main == ExtractReviewsWithPagination(se.main, ctr, max)
             prods == IF Len(main.reviews) < max /\ products # <<>>
                      THEN SelProductPages(se, 1, Min(se.nlinks, SelProductLinks),
                                           main.reviews, main.ctr, max)
                      ELSE [reviews |-> main.reviews, ctr |-> main.ctr]
             rev == IF Len(prods.reviews) < max /\ se.review_page
                    THEN ExtractReviewsWithPagination(se.rev, prods.ctr, max)
                    ELSE [reviews |-> <<>>, ctr |-> prods.ctr]
         IN [reviews |-> prods.reviews \o rev.reviews, products |-> products,
             ctr |-> rev.ctr]

(***************************************************************************)
(* The stores behind the URLs of a run.  avail is the number of reviews    *)
(* the store has; jm, sp, yo, se are what the four adapters meet there.    *)
(***************************************************************************)
JmOff == [url |-> 0, avail |-> 0, bad |-> 0]

SpOff == [ok |-> FALSE, products |-> <<>>]

YoOff == [key |-> FALSE, avail |-> 0, bad |-> 0]

Page(shown, near, dups, pages, sticky) ==
    [shown |-> shown, near |-> near, dups |-> dups, pages |-> pages,
     sticky |-> sticky]

NoPage == Page(0, 0, 0, 0, FALSE)

SeEmpty == [ok |-> TRUE, nproducts |-> 0, nlinks |-> 0, main |-> NoPage,
            prod |-> NoPage, review_page |-> FALSE, rev |-> NoPage]

Product(kind, n, bad) == [kind |-> kind, n |-> n, bad |-> bad]

Store(avail, jm, sp, yo, se) ==
    [avail |-> avail, jm |-> jm, sp |-> sp, yo |-> yo, se |-> se]

Stores ==
    { \* judge.me shops: a handful of reviews, more than a basic quota,
      \* more than every quota
      Store(3, [url |-> 1, avail |-> 3, bad |-> 0], SpOff, YoOff, SeEmpty),
      Store(35, [url |-> 2, avail |-> 35, bad |-> 0], SpOff, YoOff, SeEmpty),
      Store(250, [url |-> 1, avail |-> 250, bad |-> 0], SpOff, YoOff, SeEmpty),
      \* exactly a basic quota, under the third base URL
      Store(20, [url |-> 3, avail |-> 20, bad |-> 0], SpOff, YoOff, SeEmpty),
      \* judge.me's second page breaks
      Store(120, [url |-> 1, avail |-> 120, bad |-> 55], SpOff, YoOff, SeEmpty),
      \* judge.me's first page breaks at its second review; native reviews
      Store(8, [url |-> 1, avail |-> 8, bad |-> 2],
            [ok |-> TRUE, products |-> <<Product("ok", 2, 0),
                Product("nohandle", 0, 0), Product("ok", 1, 0)>>],
            YoOff, SeEmpty),
      \* native reviews on six products, fifty each
      Store(300, JmOff,
            [ok |-> TRUE, products |-> [i \in 1..6 |-> Product("ok", 50, 0)]],
            YoOff, SeEmpty),
      \* a malformed product entry after two native reviews; Yotpo shop
      Store(150, JmOff,
            [ok |-> TRUE, products |-> <<Product("ok", 2, 0),
                Product("malformed", 0, 0)>>],
            [key |-> TRUE, avail |-> 150, bad |-> 0], SeEmpty),
      Store(3, JmOff, SpOff, [key |-> TRUE, avail |-> 3, bad |-> 0], SeEmpty),
      \* reviews only in the rendered pages
      Store(42, JmOff, SpOff, YoOff,
            [ok |-> TRUE, nproducts |-> 2, nlinks |-> 2,
             main |-> Page(12, 1, 2, 1, FALSE), prod |-> Page(15, 0, 0, 1, TRUE),
             review_page |-> TRUE, rev |-> Page(4, 0, 0, 1, FALSE)]),
      \* reviews in the rendered pages, but the browser does not start
      Store(30, JmOff, SpOff, YoOff,
            [ok |-> FALSE, nproducts |-> 0, nlinks |-> 0,
             main |-> Page(15, 0, 0, 2, FALSE), prod |-> NoPage,
             review_page |-> FALSE, rev |-> NoPage]),
      \* no reviews anywhere
      Store(0, JmOff, SpOff, YoOff, SeEmpty) }

\* the stores the competitor URLs of a run lead to
CompetitorStores ==
    { Store(35, [url |-> 2, avail |-> 35, bad |-> 0], SpOff, YoOff, SeEmpty),
      Store(8, [url |-> 1, avail |-> 8, bad |-> 2],
            [ok |-> TRUE, products |-> <<Product("ok", 2, 0),
                Product("nohandle", 0, 0), Product("ok", 1, 0)>>],
            YoOff, SeEmpty),
      Store(0, JmOff, SpOff, YoOff, SeEmpty) }

StoresOf(t) == IF t = 0 THEN Stores ELSE CompetitorStores

\* a URL either parses or makes urlparse raise
UrlKinds == {"ok", "unparseable"}

(***************************************************************************)
(* State.                                                                  *)
(***************************************************************************)
VARIABLES
    tier_arg,        \* the tier string given to ShopifyIntegrator(tier)
    tier,            \* scraper.tier
    max_reviews,     \* scraper.max_reviews
    review_counter,  \* scraper.review_counter
    customer_url,    \* shopify_url: its kind
    competitor_urls, \* competitor_urls: the kind of each
    pc,              \* position in scrape_and_integrate
    target,          \* 0: the customer store, i: competitor i
    step,            \* position in scrape_shopify_reviews
    store,           \* what the current target's URL serves
    result,          \* scrape_shopify_reviews' result (last call)
    calls,           \* adapter calls of that scrape: <<name, records returned>>
    scraped_data,    \* scrape_customer_and_competitors' results / scraped_data
    foundation,      \* the foundation report: <<>> until converted
    dd_reviews,      \* _deduplicate_reviews: its argument
    dd_unique,       \* _deduplicate_reviews: what it returned, <<>> before
    dd_again,        \* what it returned for its own result, <<>> before
    dd_pc,           \* calls of _deduplicate_reviews made so far
    cs_site,         \* what the customer website serves
    cs_result,       \* scrape_customer_site's result
    cs_pages,        \* review_pages of scrape_customer_site
    cs_i,            \* the review page scrape_customer_site is at
    cs_pc,           \* position in CustomerSiteIntegrator's pipeline
    cs_foundation,   \* CustomerSiteIntegrator's report: <<>> until converted
    rd_files,        \* the data files under DataIntegrator's base_path
    rd_data,         \* the ReviewData object
    rd_report,       \* the DataQualityReport: <<>> until validated
    rd_pc,           \* position of the caller of validate_data_quality
    cf_in,           \* the arguments of the confidence-level functions
    cf_out,          \* the levels they returned: <<>> before
    cf_pc,           \* whether they have been called
    cv_in,           \* convert_multi_store_to_foundation_format: scraped_data
    cv_out,          \* the reports it returned for cv_in, one per call
    cv_pc,           \* whether it is called on its own
    pg_api,          \* the adapter followed page by page: "judge.me" or "yotpo"
    pg_max,          \* self.max_reviews of that call
    pg_url,          \* position in base_urls
    pg_page,         \* page
    pg_all,          \* len(all_reviews)
    pg_log,          \* the page requests made: [url, page, status, n, raised]
    pg_pc,           \* position in the adapter
    sl_in,           \* _extract_reviews_with_pagination: the rendered page and max_reviews
    sl_out,          \* what it returned: <<>> before
    sl_pc,           \* whether it is called on its own
    yt_quota_used,   \* quota_manager.quota_used
    yt_max_comments, \* get_video_comments: max_comments
    yt_fetched,      \* get_video_comments: comments_fetched
    yt_pc            \* position in YouTubeCommentScraper

\* the state of ShopifyIntegrator.scrape_and_integrate
scrapeVars == <<tier_arg, tier, max_reviews, review_counter, customer_url,
                competitor_urls, pc, target, step, store, result, calls,
                scraped_data, foundation>>

\* the state of a caller of CustomerSiteScraper._deduplicate_reviews
dedupVars == <<dd_reviews, dd_unique, dd_again, dd_pc>>

\* the state of CustomerSiteScraper.scrape_customer_site and its caller
customerVars == <<cs_site, cs_result, cs_pages, cs_i, cs_pc, cs_foundation>>

\* the state of a caller of integrate_all_sources and validate_data_quality
qualityVars == <<rd_files, rd_data, rd_report, rd_pc>>

\* the state of a caller of the confidence-level functions
confidenceVars == <<cf_in, cf_out, cf_pc>>

\* the state of a caller of convert_multi_store_to_foundation_format
convertVars == <<cv_in, cv_out, cv_pc>>

\* the state of one call of _try_judge_me_api or _try_yotpo_api, page by page
pagingVars == <<pg_api, pg_max, pg_url, pg_page, pg_all, pg_log, pg_pc>>

\* the state of a caller of _extract_reviews_with_pagination
seleniumVars == <<sl_in, sl_out, sl_pc>>

\* the state of YouTubeCommentScraper and its YouTubeQuotaManager
youtubeVars == <<yt_quota_used, yt_max_comments, yt_fetched, yt_pc>>

vars == <<scrapeVars, dedupVars, customerVars, qualityVars, confidenceVars, convertVars, pagingVars, seleniumVars, youtubeVars>>

\* what scrape_and_integrate does not touch
restOfScrape == <<dedupVars, customerVars, qualityVars, confidenceVars, convertVars, pagingVars, seleniumVars, youtubeVars>>

\* what a caller of _deduplicate_reviews does not touch
restOfDedup == <<scrapeVars, customerVars, qualityVars, confidenceVars, convertVars, pagingVars, seleniumVars, youtubeVars>>

\* what scrape_customer_site and its caller do not touch
restOfCustomer == <<scrapeVars, dedupVars, qualityVars, confidenceVars, convertVars, pagingVars, seleniumVars, youtubeVars>>

\* what integrate_all_sources and validate_data_quality do not touch
restOfQuality == <<scrapeVars, dedupVars, customerVars, confidenceVars, convertVars, pagingVars, seleniumVars, youtubeVars>>

\* what a caller of the confidence-level functions does not touch
restOfConfidence == <<scrapeVars, dedupVars, customerVars, qualityVars, convertVars, pagingVars, seleniumVars, youtubeVars>>

\* what a caller of convert_multi_store_to_foundation_format does not touch
restOfConvert == <<scrapeVars, dedupVars, customerVars, qualityVars, confidenceVars, pagingVars, seleniumVars, youtubeVars>>

\* what an API adapter's pagination does not touch
restOfPaging == <<scrapeVars, dedupVars, customerVars, qualityVars, confidenceVars, convertVars, seleniumVars, youtubeVars>>

\* what a caller of _extract_reviews_with_pagination does not touch
restOfSelenium == <<scrapeVars, dedupVars, customerVars, qualityVars, confidenceVars, convertVars, pagingVars, youtubeVars>>

\* what YouTubeCommentScraper does not touch
restOfYoutube == <<scrapeVars, dedupVars, customerVars, qualityVars, confidenceVars, convertVars, pagingVars, seleniumVars>>

\* no call of _deduplicate_reviews under way
DedupIdle ==
    /\ dd_reviews = <<>>
    /\ dd_unique = <<>>
    /\ dd_again = <<>>
    /\ dd_pc = 0

\* scrape_customer_site is not running
CustomerIdle ==
    /\ cs_site = <<>>
    /\ cs_result = <<>>
    /\ cs_pages = <<>>
    /\ cs_i = 0
    /\ cs_pc = "idle"
    /\ cs_foundation = <<>>

\* no ReviewData is being validated
QualityIdle ==
    /\ rd_files = <<>>
    /\ rd_data = <<>>
    /\ rd_report = <<>>
    /\ rd_pc = "idle"

\* no confidence level is being computed on its own
ConfidenceIdle ==
    /\ cf_in = <<>>
    /\ cf_out = <<>>
    /\ cf_pc = "idle"

\* convert_multi_store_to_foundation_format is not called on its own
ConvertIdle ==
    /\ cv_in = <<>>
    /\ cv_out = <<>>
    /\ cv_pc = "idle"

\* no API adapter is followed page by page
PagingIdle ==
    /\ pg_api = "none"
    /\ pg_max = 0
    /\ pg_url = 0
    /\ pg_page = 0
    /\ pg_all = 0
    /\ pg_log = <<>>
    /\ pg_pc = "idle"

\* _extract_reviews_with_pagination is not called on its own
SeleniumIdle ==
    /\ sl_in = <<>>
    /\ sl_out = <<>>
    /\ sl_pc = "idle"

\* no YouTubeCommentScraper exists
YoutubeIdle ==
    /\ yt_quota_used = 0
    /\ yt_max_comments = 0
    /\ yt_fetched = 0
    /\ yt_pc = "none"

NumCompetitors == Len(competitor_urls)

\* "if competitor_urls:" of scrape_and_integrate
MultiStore == competitor_urls # <<>>

TargetUrl(t) == IF t = 0 THEN customer_url ELSE competitor_urls[t]

\* result as initialised by scrape_shopify_reviews; url t stands for the
\* URL of target t
InitResult(t, tr, max) ==
    [url |-> t, scrape_method |-> "None", tier |-> tr,
     max_reviews_per_site |-> max, reviews |-> <<>>, products |-> <<>>,
     total_reviews |-> 0,
     data_quality |-> [reviews_found |-> FALSE, method_used |-> "None",
                       api_attempts |-> <<>>, tier_limit_applied |-> FALSE,
                       available_reviews_estimated |-> 0],
     store_type |-> "", store_index |-> 0, competitor_number |-> 0]

\* results as initialised by scrape_customer_and_competitors
InitResults(tr, max) ==
    [scrape_type |-> "customer_and_competitors", tier |-> tr,
     max_reviews_per_site |-> max, customer_data |-> <<>>,
     competitor_data |-> <<>>, total_customer_reviews |-> 0,
     total_competitor_reviews |-> 0, has_summary |-> TRUE,
     summary |-> [stores_scraped |-> 1, total_reviews |-> 0,
                  successful_scrapes |-> 0, failed_scrapes |-> 0]]

Init ==
    /\ tier_arg \in TierInputs
    /\ tier = Lower(tier_arg)
    /\ max_reviews = TierLimitOf(tier)
    /\ review_counter = 1
    /\ customer_url \in UrlKinds
    /\ competitor_urls \in UNION {[1..k -> UrlKinds] : k \in 0..MaxCompetitors}
    /\ pc = "target"
    /\ target = 0
    /\ step = "none"
    /\ store = Store(0, JmOff, SpOff, YoOff, SeEmpty)
    /\ result = InitResult(0, tier, max_reviews)
    /\ calls = <<>>
    /\ scraped_data = InitResults(tier, max_reviews)
    /\ foundation = <<>>
    /\ DedupIdle
    /\ CustomerIdle
    /\ QualityIdle
    /\ ConfidenceIdle
    /\ ConvertIdle
    /\ PagingIdle
    /\ SeleniumIdle
    /\ YoutubeIdle

(***************************************************************************)
(* scrape_shopify_reviews, one action per step.                            *)
(***************************************************************************)
\* "except Exception" of scrape_customer_and_competitors around one target
TargetFailed(sd) == [sd EXCEPT !.summary.failed_scrapes = @ + 1]

\* The call for the next target: the counter reset of the multi-store loop,
\* urlparse and the initial result.  An unparseable URL raises: the
\* multi-store loop records the failure and goes on, the single-store call
\* lets it out.
BeginScrape ==
    /\ pc = "target"
    /\ target <= NumCompetitors
    /\ \E s \in StoresOf(target) :
         IF TargetUrl(target) = "unparseable"
         THEN /\ UNCHANGED <<store, result, calls, step>>
              /\ IF MultiStore
                 THEN /\ scraped_data' = TargetFailed(scraped_data)
                      /\ review_counter' = 1
                      /\ target' = target + 1
                      /\ pc' = "target"
                 ELSE /\ pc' = "raised"
                      /\ UNCHANGED <<scraped_data, review_counter, target>>
         ELSE /\ store' = s
              /\ result' = InitResult(target, tier, max_reviews)
              /\ calls' = <<>>
              /\ step' = "judge"
              /\ pc' = "scraping"
              /\ review_counter' = IF MultiStore THEN 1 ELSE review_counter
              /\ UNCHANGED <<scraped_data, target>>
    /\ UNCHANGED <<tier_arg, tier, max_reviews, customer_url, competitor_urls,
                   foundation>>
    /\ UNCHANGED restOfScrape

\* faulty variant: the adapter's list is stored without the tier cap
ApplyApiReviewsNoCap(res, reviews, name, method, max) ==
    IF reviews # <<>>
    THEN [res EXCEPT
            !.reviews = @ \o reviews,
            !.data_quality.api_attempts = Append(@, name \o " - success"),
            !.scrape_method = method,
            !.data_quality.tier_limit_applied =
                IF Len(reviews) > max THEN TRUE ELSE @,
            !.data_quality.available_reviews_estimated =
                IF Len(reviews) > max THEN Len(reviews) ELSE @]
    ELSE [res EXCEPT
            !.data_quality.api_attempts = Append(@, name \o " - failed")]

\* faulty variant: the limit counts as applied when the list just reaches the quota
ApplyApiReviewsAtQuota(res, reviews, name, method, max) ==
    IF reviews # <<>>
    THEN [res EXCEPT
            !.reviews = @ \o Take(reviews, max),
            !.data_quality.api_attempts = Append(@, name \o " - success"),
            !.scrape_method = method,
            !.data_quality.tier_limit_applied =
                IF Len(reviews) >= max THEN TRUE ELSE @,
            !.data_quality.available_reviews_estimated =
                IF Len(reviews) >= max THEN Len(reviews) ELSE @]
    ELSE [res EXCEPT
            !.data_quality.api_attempts = Append(@, name \o " - failed")]

\* faulty variant: an adapter that returned nothing leaves no entry in api_attempts
ApplyApiReviewsSilentFailure(res, reviews, name, method, max) ==
    IF reviews # <<>>
    THEN [res EXCEPT
            !.reviews = @ \o Take(reviews, max),
            !.data_quality.api_attempts = Append(@, name \o " - success"),
            !.scrape_method = method,
            !.data_quality.tier_limit_applied =
                IF Len(reviews) > max THEN TRUE ELSE @,
            !.data_quality.available_reviews_estimated =
                IF Len(reviews) > max THEN Len(reviews) ELSE @]
    ELSE res

\* what the three API blocks do with an adapter's list
ApplyApiReviews(res, reviews, name, method, max) ==
    IF reviews # <<>>
    THEN [res EXCEPT
            !.reviews = @ \o Take(reviews, max),
            !.data_quality.api_attempts = Append(@, name \o " - success"),
            !.scrape_method = method,
            !.data_quality.tier_limit_applied =
                IF Len(reviews) > max THEN TRUE ELSE @,
            !.data_quality.available_reviews_estimated =
                IF Len(reviews) > max THEN Len(reviews) ELSE @]
    ELSE [res EXCEPT
            !.data_quality.api_attempts = Append(@, name \o " - failed")]

TryJudgeMe ==
    /\ pc = "scraping" /\ step = "judge"
    /\ LET r == TryJudgeMeApi(store.jm, review_counter, max_reviews)
       IN /\ result' = ApplyApiReviews(result, r.reviews, "judge.me",
                                       "judge.me_api", max_reviews)
          /\ review_counter' = r.ctr
          /\ calls' = Append(calls, <<"judge.me", Len(r.reviews)>>)
    /\ step' = "shopify"
    /\ UNCHANGED <<tier_arg, tier, max_reviews, customer_url, competitor_urls,
                   pc, target, store, scraped_data, foundation>>
    /\ UNCHANGED restOfScrape

TryShopifyProduct ==
    /\ pc = "scraping" /\ step = "shopify"
    /\ IF result.reviews = <<>>
       THEN LET r == TryShopifyProductApi(store.sp, review_counter)
            IN /\ result' = ApplyApiReviews(result, r.reviews, "shopify_products",
                                            "shopify_product_api", max_reviews)
               /\ review_counter' = r.ctr
               /\ calls' = Append(calls, <<"shopify_products", Len(r.reviews)>>)
       ELSE UNCHANGED <<result, review_counter, calls>>
    /\ step' = "yotpo"
    /\ UNCHANGED <<tier_arg, tier, max_reviews, customer_url, competitor_urls,
                   pc, target, store, scraped_data, foundation>>
    /\ UNCHANGED restOfScrape

\* faulty variant: Yotpo is tried whatever the earlier adapters returned
TryYotpoAlways ==
    /\ pc = "scraping" /\ step = "yotpo"
    /\ LET r == TryYotpoApi(store.yo, review_counter, max_reviews)
       IN /\ result' = ApplyApiReviews(result, r.reviews, "yotpo",
                                       "yotpo_api", max_reviews)
          /\ review_counter' = r.ctr
          /\ calls' = Append(calls, <<"yotpo", Len(r.reviews)>>)
    /\ step' = "selenium"
    /\ UNCHANGED <<tier_arg, tier, max_reviews, customer_url, competitor_urls,
                   pc, target, store, scraped_data, foundation>>
    /\ UNCHANGED restOfScrape

TryYotpo ==
    /\ pc = "scraping" /\ step = "yotpo"
    /\ IF result.reviews = <<>>
       THEN LET r == TryYotpoApi(store.yo, review_counter, max_reviews)
            IN /\ result' = ApplyApiReviews(result, r.reviews, "yotpo",
                                            "yotpo_api", max_reviews)
               /\ review_counter' = r.ctr
               /\ calls' = Append(calls, <<"yotpo", Len(r.reviews)>>)
       ELSE UNCHANGED <<result, review_counter, calls>>
    /\ step' = "selenium"
    /\ UNCHANGED <<tier_arg, tier, max_reviews, customer_url, competitor_urls,
                   pc, target, store, scraped_data, foundation>>
    /\ UNCHANGED restOfScrape

\* "Step 2: If no API results, use Selenium"
ApplySeleniumData(res, data, max) ==
    [res EXCEPT
        !.reviews = Take(data.reviews, max),
        !.products = data.products,
        !.scrape_method = "selenium",
        !.data_quality.method_used = "selenium_javascript_rendering",
        !.data_quality.tier_limit_applied =
            IF Len(data.reviews) > max THEN TRUE ELSE @,
        !.data_quality.available_reviews_estimated =
            IF Len(data.reviews) > max THEN Len(data.reviews) ELSE @]

SeleniumFallback ==
    /\ pc = "scraping" /\ step = "selenium"
    /\ IF result.reviews = <<>>
       THEN LET r == ScrapeWithSelenium(store.se, review_counter, max_reviews)
            IN /\ result' = ApplySeleniumData(result, r, max_reviews)
               /\ review_counter' = r.ctr
               /\ calls' = Append(calls, <<"selenium", Len(r.reviews)>>)
       ELSE UNCHANGED <<result, review_counter, calls>>
    /\ step' = "finish"
    /\ UNCHANGED <<tier_arg, tier, max_reviews, customer_url, competitor_urls,
                   pc, target, store, scraped_data, foundation>>
    /\ UNCHANGED restOfScrape

\* "Update data quality metrics"
FinalResult(res) ==
    [res EXCEPT
        !.total_reviews = Len(res.reviews),
        !.data_quality.reviews_found = Len(res.reviews) > 0,
        !.data_quality.method_used = res.scrape_method]

\* the customer branch of scrape_customer_and_competitors after the call
RecordCustomer(sd, data) ==
    LET cd == [data EXCEPT !.store_type = "customer", !.store_index = 0]
    IN [sd EXCEPT
          !.customer_data = <<cd>>,
          !.total_customer_reviews = cd.total_reviews,
          !.summary.successful_scrapes = @ + 1,
          !.summary.total_reviews = @ + cd.total_reviews]

\* faulty variant: a competitor's reviews are left out of summary.total_reviews
RecordCompetitorNoTotal(sd, data, i) ==
    LET cd == [data EXCEPT !.store_type = "competitor", !.store_index = i,
                           !.competitor_number = i]
    IN [sd EXCEPT
          !.competitor_data = Append(@, cd),
          !.total_competitor_reviews = @ + cd.total_reviews,
          !.summary.stores_scraped = @ + 1,
          !.summary.successful_scrapes = @ + 1]

\* faulty variant: the newest competitor is put in front of the list
RecordCompetitorFirst(sd, data, i) ==
    LET cd == [data EXCEPT !.store_type = "competitor", !.store_index = i,
                           !.competitor_number = i]
    IN [sd EXCEPT
          !.competitor_data = <<cd>> \o @,
          !.total_competitor_reviews = @ + cd.total_reviews,
          !.summary.stores_scraped = @ + 1,
          !.summary.successful_scrapes = @ + 1,
          !.summary.total_reviews = @ + cd.total_reviews]

\* the competitor branch of scrape_customer_and_competitors after the call
RecordCompetitor(sd, data, i) ==
    LET cd == [data EXCEPT !.store_type = "competitor", !.store_index = i,
                           !.competitor_number = i]
    IN [sd EXCEPT
          !.competitor_data = Append(@, cd),
          !.total_competitor_reviews = @ + cd.total_reviews,
          !.summary.stores_scraped = @ + 1,
          !.summary.successful_scrapes = @ + 1,
          !.summary.total_reviews = @ + cd.total_reviews]

\* scraped_data of the single-store branch of scrape_and_integrate
SingleStoreData(sd, data) ==
    [sd EXCEPT
        !.scrape_type = "single_store",
        !.customer_data = <<data>>,
        !.competitor_data = <<>>,
        !.total_customer_reviews = data.total_reviews,
        !.total_competitor_reviews = 0,
        !.has_summary = FALSE]

\* scrape_shopify_reviews returns; its caller stores the result
FinishScrape ==
    /\ pc = "scraping" /\ step = "finish"
    /\ LET data == FinalResult(result)
       IN /\ result' = data
          /\ scraped_data' =
                IF ~MultiStore THEN SingleStoreData(scraped_data, data)
                ELSE IF target = 0 THEN RecordCustomer(scraped_data, data)
                ELSE RecordCompetitor(scraped_data, data, target)
    /\ step' = "returned"
    /\ pc' = "target"
    /\ target' = target + 1
    /\ UNCHANGED <<tier_arg, tier, max_reviews, review_counter, customer_url,
                   competitor_urls, store, calls, foundation>>
    /\ UNCHANGED restOfScrape

\* every target done: "Restore original counter", return scraped_data
ReturnScraped ==
    /\ pc = "target"
    /\ target > NumCompetitors
    /\ review_counter' = IF MultiStore THEN 1 ELSE review_counter
    /\ pc' = "scraped"
    /\ UNCHANGED <<tier_arg, tier, max_reviews, customer_url, competitor_urls,
                   target, step, store, result, calls, scraped_data, foundation>>
    /\ UNCHANGED restOfScrape

(***************************************************************************)
(* ShopifyIntegrator.convert_multi_store_to_foundation_format.             *)
(***************************************************************************)
\* the adapters that copy a verification flag into the review: "verified"
\* of Judge.me, "verified_buyer" of Yotpo
VerifiedSources == {"judge.me", "yotpo"}

\* a scraped review has the key "verified"
HasVerifiedKey(review) == review.src \in VerifiedSources

\* the flag the API served for the review: the odd-numbered reviews of a
\* store are verified purchases
ServedVerified(review) == review.text.a % 2 = 1

\* review.get("verified", False)
GetVerified(review) ==
    IF HasVerifiedKey(review) THEN ServedVerified(review) ELSE FALSE

\* "Convert customer reviews"
CustomerReviews(sd) ==
    IF sd.customer_data # <<>> /\ sd.customer_data[1].reviews # <<>>
    THEN LET cd == sd.customer_data[1]
         IN [j \in 1..Len(cd.reviews) |->
               [review_id |-> ReviewId(cd.reviews[j].n),
                text |-> cd.reviews[j].text,
                source_url |-> cd.url,
                verified |-> GetVerified(cd.reviews[j]),
                metadata |-> [source |-> "customer_shopify_store",
                              competitor_number |-> 0,
                              extraction_method |-> cd.scrape_method]]]
    ELSE <<>>

\* the reviews of the i-th entry of competitor_data
CompetitorEntryReviews(comp_data, i) ==
    [j \in 1..Len(comp_data.reviews) |->
       [review_id |-> CompetitorReviewId(i, ReviewId(comp_data.reviews[j].n)),
        text |-> comp_data.reviews[j].text,
        source_url |-> comp_data.url,
        verified |-> GetVerified(comp_data.reviews[j]),
        metadata |-> [source |-> "competitor_shopify_store",
                      competitor_number |-> i,
                      extraction_method |-> comp_data.scrape_method]]]

\* "for i, comp_data in enumerate(competitor_data_list, 1)"
CompetitorLabel(list, i) == i

\* "Convert competitor reviews", entries i.. of competitor_data_list
RECURSIVE CompetitorReviews(_, _)
CompetitorReviews(list, i) ==
    IF i > Len(list) THEN <<>>
    ELSE CompetitorEntryReviews(list[i], CompetitorLabel(list, i))
           \o CompetitorReviews(list, i + 1)

RECURSIVE CompetitorSources(_, _)
CompetitorSources(list, i) ==
    IF i > Len(list) THEN <<>>
    ELSE (IF list[i].reviews # <<>>
          THEN <<[competitor_number |-> CompetitorLabel(list, i),
                  url |-> list[i].url,
                  total_reviews |-> list[i].total_reviews,
                  scrape_method |-> list[i].scrape_method]>>
          ELSE <<>>)
           \o CompetitorSources(list, i + 1)

\* scraped_data.get("summary", {}).get(key, default)
SummaryGet(sd, key, default) ==
    IF sd.has_summary THEN sd.summary[key] ELSE default

\* faulty variant: "low" only between 10 and 19 reviews
MultiStoreConfidenceLevelBanded(sd) ==
    LET total_reviews == SummaryGet(sd, "total_reviews", 0)
        successful_scrapes == SummaryGet(sd, "successful_scrapes", 0)
        total_stores == SummaryGet(sd, "stores_scraped", 1)
    IN IF total_reviews >= 50 /\ total_stores > 0
          /\ 10 * successful_scrapes >= 8 * total_stores
       THEN "high"
       ELSE IF total_reviews >= 20 /\ total_stores > 0
               /\ 10 * successful_scrapes >= 6 * total_stores
       THEN "medium"
       ELSE IF total_reviews >= 10 /\ total_reviews < 20 THEN "low"
       ELSE "very_low"

\* faulty variant: the lowest level is "low"
MultiStoreConfidenceLevelLowFloor(sd) ==
    LET total_reviews == SummaryGet(sd, "total_reviews", 0)
        successful_scrapes == SummaryGet(sd, "successful_scrapes", 0)
        total_stores == SummaryGet(sd, "stores_scraped", 1)
    IN IF total_reviews >= 50 /\ total_stores > 0
          /\ 10 * successful_scrapes >= 8 * total_stores
       THEN "high"
       ELSE IF total_reviews >= 20 /\ total_stores > 0
               /\ 10 * successful_scrapes >= 6 * total_stores
       THEN "medium"
       ELSE "low"

\* ShopifyIntegrator._calculate_multi_store_confidence_level.  success_rate
\* is successful_scrapes / total_stores, 0 when total_stores is 0; the
\* comparisons with 0.8 and 0.6 are made on integers.
MultiStoreConfidenceLevel(sd) ==
    LET total_reviews == SummaryGet(sd, "total_reviews", 0)
        successful_scrapes == SummaryGet(sd, "successful_scrapes", 0)
        total_stores == SummaryGet(sd, "stores_scraped", 1)
    IN IF total_reviews >= 50 /\ total_stores > 0
          /\ 10 * successful_scrapes >= 8 * total_stores
       THEN "high"
       ELSE IF total_reviews >= 20 /\ total_stores > 0
               /\ 10 * successful_scrapes >= 6 * total_stores
       THEN "medium"
       ELSE IF total_reviews >= 10 THEN "low"
       ELSE "very_low"

\* the list handed to set() for data_quality.extraction_methods
ExtractionMethodList(sd) ==
    <<IF sd.customer_data # <<>> THEN sd.customer_data[1].scrape_method
      ELSE "">>
    \o [i \in 1..Len(sd.competitor_data) |-> sd.competitor_data[i].scrape_method]

\* list(set(l)): the distinct elements of l in the iteration order of a set
\* of strings, which follows the interpreter's string hashes and so is any
\* order of them
ListOfSet(l) ==
    LET S == {l[i] : i \in 1..Len(l)}
    IN {o \in [1..Cardinality(S) -> S] :
          \A i, j \in 1..Cardinality(S) : i # j => o[i] # o[j]}

\* a rate as the fraction num / den
Rate(num, den) == [num |-> num, den |-> den]

\* ShopifyIntegrator._calculate_verified_rate; 0.0 is 0 / 1
VerifiedRate(reviews) ==
    IF reviews = <<>> THEN Rate(0, 1)
    ELSE Rate(Cardinality({i \in 1..Len(reviews) : reviews[i].verified}),
              Len(reviews))

BelowMinimumNote == "WARNING: Below minimum recommended review count"

\* ShopifyIntegrator._generate_multi_store_processing_notes: the notes
\* that do not only repeat names and counts
MultiStoreProcessingNotes(sd) ==
    IF SummaryGet(sd, "total_reviews", 0) < 20
    THEN <<BelowMinimumNote>>
    ELSE <<>>

\* extraction_methods is what list(set(...)) gave in this call; an optional
\* field is <<>> for None and <<v>> for the value v
ConvertMultiStore(sd, extraction_methods) ==
    LET customer_reviews == CustomerReviews(sd)
        competitor_reviews == CompetitorReviews(sd.competitor_data, 1)
        all_reviews == customer_reviews \o competitor_reviews
    IN [source_type |-> "customer_and_competitors",
        reviews |-> all_reviews,
        total_review_count |-> Len(all_reviews),
        customer_review_count |-> Len(customer_reviews),
        competitor_review_count |-> Len(competitor_reviews),
        competitor_info |-> CompetitorSources(sd.competitor_data, 1),
        data_quality |->
          [scrape_successful |-> Len(all_reviews) > 0,
           stores_scraped |-> SummaryGet(sd, "stores_scraped", 1),
           successful_scrapes |-> SummaryGet(sd, "successful_scrapes", 0),
           reviews_found |-> Len(all_reviews) > 0,
           has_minimum_reviews |-> Len(all_reviews) >= 20,
           customer_has_minimum |-> Len(customer_reviews) >= 10,
           confidence_level |-> MultiStoreConfidenceLevel(sd),
           extraction_methods |-> extraction_methods,
           verification_rate |-> <<VerifiedRate(all_reviews)>>],
        metadata |->
          [processing_notes |-> MultiStoreProcessingNotes(sd)]]

\* scrape_and_integrate converts what the scraper returned
Convert ==
    /\ pc = "scraped"
    /\ \E extraction_methods \in ListOfSet(ExtractionMethodList(scraped_data)) :
         foundation' = <<ConvertMultiStore(scraped_data, extraction_methods)>>
    /\ pc' = "done"
    /\ UNCHANGED <<tier_arg, tier, max_reviews, review_counter, customer_url,
                   competitor_urls, target, step, store, result, calls,
                   scraped_data>>
    /\ UNCHANGED restOfScrape

Next ==
    \/ BeginScrape
    \/ TryJudgeMe
    \/ TryShopifyProduct
    \/ TryYotpo
    \/ SeleniumFallback
    \/ FinishScrape
    \/ ReturnScraped
    \/ Convert

Spec == Init /\ [][Next]_vars

(***************************************************************************)
(* Properties.                                                             *)
(***************************************************************************)
\* scrape_shopify_reviews has returned `result`
Returned == step = "returned"

\* the number of records the last adapter called handed back, before the cap
Discovered == IF calls = <<>> THEN 0 ELSE calls[Len(calls)][2]

AdapterOrder == <<"judge.me", "shopify_products", "yotpo", "selenium">>

MethodOrder == <<"judge.me_api", "shopify_product_api", "yotpo_api", "selenium">>

\* the quota a tier string stands for, spelled out per input
QuotaOf(t) ==
    IF t \in {TierPremium, TierEnterprise, TierPro,
              <<"P", "r", "e", "m", "i", "u", "m">>}
    THEN 200
    ELSE 20

IsDigits(s) ==
    \A i \in 1..Len(s) : \E d \in 1..Len(DigitChars) : DigitChars[d] = s[i]

\* R<nnn>: "R" and at least three digits
IsCustomerId(id) ==
    /\ Len(id) >= 4
    /\ id[1] = "R"
    /\ IsDigits(SubSeq(id, 2, Len(id)))

\* C<i>-R<nnn>
IsCompetitorId(id) ==
    \E k \in 2..Len(id) :
        /\ id[1] = "C"
        /\ k > 2
        /\ IsDigits(SubSeq(id, 2, k - 1))
        /\ id[k] = "-"
        /\ IsCustomerId(SubSeq(id, k + 1, Len(id)))

Report == foundation[1]

ReviewIds(reviews) == {reviews[i].review_id : i \in 1..Len(reviews)}

\* C1: every result of scrape_shopify_reviews has total_reviews equal to the
\* length of reviews and at most the tier's quota: 20 for basic and for an
\* unrecognised tier, 200 for premium, enterprise and pro in any letter case.
C1_QuotaInvariant ==
    Returned =>
        /\ result.total_reviews = Len(result.reviews)
        /\ Len(result.reviews) <= QuotaOf(tier_arg)
        /\ max_reviews = QuotaOf(tier_arg)

\* C1 witness: a mixed-case premium run whose adapter found more than 200
\* reviews returns exactly 200
C1_Witness ==
    /\ Returned
    /\ tier_arg = <<"P", "r", "e", "m", "i", "u", "m">>
    /\ Discovered > 200
    /\ result.total_reviews = 200

\* C2: in every result tier_limit_applied is true exactly when the winning
\* adapter returned more records than max_reviews before the cap.
C2_TierLimitFlag ==
    Returned =>
        (result.data_quality.tier_limit_applied <=> Discovered > max_reviews)

\* C2 witness: the Selenium fallback found more than the quota
C2_Witness ==
    /\ Returned
    /\ calls[Len(calls)][1] = "selenium"
    /\ Discovered > max_reviews
    /\ result.data_quality.tier_limit_applied

\* C3: in every result available_reviews_estimated equals the number of
\* reviews the winning adapter discovered before the cap.
C3_EstimateIsDiscovered ==
    Returned =>
        result.data_quality.available_reviews_estimated = Discovered

\* C4: tier_limit_applied is true exactly when the store has more reviews
\* than the tier's max_reviews.
C4_FlagIffStoreExceedsQuota ==
    Returned =>
        (result.data_quality.tier_limit_applied <=> store.avail > max_reviews)

\* C5: when adapter k is the first to return records, scrape_method and
\* method_used name adapter k, every earlier API adapter has its
\* "<name> - failed" entry in api_attempts in priority order, in the result
\* the call returns.
C5_Fallthrough ==
    (Returned /\ Discovered > 0) =>
        LET k == Len(calls)
        IN /\ result.scrape_method = MethodOrder[k]
           /\ result.data_quality.method_used = MethodOrder[k]
           /\ Len(result.data_quality.api_attempts) >= Min(k - 1, 3)
           /\ \A j \in 1..Min(k - 1, 3) :
                result.data_quality.api_attempts[j]
                    = AdapterOrder[j] \o " - failed"

\* C5 witness: Yotpo wins after judge.me and the product API gave nothing
C5_Witness ==
    /\ Returned
    /\ Len(calls) = 3
    /\ Discovered > 0
    /\ result.scrape_method = "yotpo_api"

\* C6: within one target the adapters are called in the order judge.me,
\* product API, Yotpo, Selenium, each only after every earlier one returned
\* zero records; after an adapter returned a record no other is called.
C6_AdapterOrder ==
    /\ Len(calls) <= Len(AdapterOrder)
    /\ \A j \in 1..Len(calls) : calls[j][1] = AdapterOrder[j]
    /\ \A j \in 1..(Len(calls) - 1) : calls[j][2] = 0

\* C6 witness: the second adapter returned fewer records than the quota and
\* the scrape returned without calling a third
C6_Witness ==
    /\ Returned
    /\ Len(calls) = 2
    /\ Discovered > 0
    /\ Discovered < max_reviews

\* C7: in every foundation report the review ids are pairwise distinct;
\* customer ids have the form R<nnn>, competitor ids the form C<i>-R<nnn>.
C7_UniqueIds ==
    foundation # <<>> =>
        /\ Cardinality(ReviewIds(Report.reviews)) = Len(Report.reviews)
        /\ \A j \in 1..Len(Report.reviews) :
             LET r == Report.reviews[j]
             IN IF r.metadata.source = "customer_shopify_store"
                THEN IsCustomerId(r.review_id)
                ELSE IsCompetitorId(r.review_id)

\* C7 witness: a report with customer reviews and two competitors' reviews
C7_Witness ==
    /\ foundation # <<>>
    /\ Report.customer_review_count > 0
    /\ Len(Report.competitor_info) = 2

\* C8: the review ids of every target of scrape_customer_and_competitors
\* start at R001 and increase strictly in list order.
C8_IdsRestartAtOne ==
    (MultiStore /\ Returned /\ result.reviews # <<>>) =>
        /\ ReviewId(result.reviews[1].n) = <<"R", "0", "0", "1">>
        /\ \A j \in 1..(Len(result.reviews) - 1) :
             result.reviews[j].n < result.reviews[j + 1].n

\* C9: every competitor review of the report carries the 1-based position
\* of its store's URL in competitor_urls, in metadata.competitor_number and
\* in the C<i>- prefix of its id.
C9_CompetitorAttribution ==
    foundation # <<>> =>
        \A j \in 1..Len(Report.reviews) :
            LET r == Report.reviews[j]
            IN r.metadata.source = "competitor_shopify_store" =>
                 /\ r.metadata.competitor_number = r.source_url
                 /\ SubSeq(r.review_id, 1, Len(Digits(r.source_url)) + 2)
                      = <<"C">> \o Digits(r.source_url) \o <<"-">>

\* C10: in a report of a run with competitors total_review_count is the sum
\* of customer_review_count and competitor_review_count and the length of
\* reviews; the two counts are the customer's total_reviews and the sum of
\* the competitors' total_reviews; the total is summary.total_reviews.
C10_ReportCounts ==
    (foundation # <<>> /\ MultiStore) =>
        LET cd == scraped_data.customer_data
            comps == scraped_data.competitor_data
        IN /\ Report.total_review_count
                = Report.customer_review_count + Report.competitor_review_count
           /\ Report.total_review_count = Len(Report.reviews)
           /\ Report.customer_review_count
                = (IF cd = <<>> THEN 0 ELSE cd[1].total_reviews)
           /\ Report.competitor_review_count
                = SumSeq([i \in 1..Len(comps) |-> comps[i].total_reviews])
           /\ Report.total_review_count = scraped_data.summary.total_reviews

\* C10 witness: a customer and two competitors all contributed reviews
C10_Witness ==
    /\ foundation # <<>>
    /\ MultiStore
    /\ Report.customer_review_count > 0
    /\ Len(scraped_data.competitor_data) = 2
    /\ \A i \in 1..2 : scraped_data.competitor_data[i].total_reviews > 0
    /\ Report.competitor_review_count > Report.customer_review_count

(***************************************************************************)
(* CustomerSiteScraper._deduplicate_reviews.                               *)
(***************************************************************************)
MaxDedupLen == 3

Rep(c, n) == [i \in 1..n |-> c]

\* what str.strip() removes
WhitespaceChars == {" ", "\t", "\n"}

RECURSIVE LStrip(_)
LStrip(s) ==
    IF s # <<>> /\ Head(s) \in WhitespaceChars THEN LStrip(Tail(s)) ELSE s

RECURSIVE RStrip(_)
RStrip(s) ==
    IF s # <<>> /\ s[Len(s)] \in WhitespaceChars
    THEN RStrip(SubSeq(s, 1, Len(s) - 1))
    ELSE s

Strip(s) == RStrip(LStrip(s))

\* "text_key = text[:100]"
DedupKeyLen == 100

\* review.get("text", ""): the text field is <<>> when the record has no
\* "text", <<t>> when it has text t
GetText(review) == IF review.text = <<>> THEN <<>> ELSE review.text[1]

\* text_key of one record
TextKey(review) == Take(Lower(Strip(GetText(review))), DedupKeyLen)

\* faulty variant: only the key of the previous record is remembered
RECURSIVE DedupLoopAdjacent(_, _, _, _)
DedupLoopAdjacent(reviews, i, seen_texts, unique_reviews) ==
    IF i > Len(reviews) THEN unique_reviews
    ELSE LET text_key == TextKey(reviews[i])
         IN IF text_key \notin seen_texts
            THEN DedupLoopAdjacent(reviews, i + 1, {text_key},
                                   Append(unique_reviews, reviews[i]))
            ELSE DedupLoopAdjacent(reviews, i + 1, seen_texts, unique_reviews)

\* faulty variant: dropping a duplicate empties seen_texts
RECURSIVE DedupLoopForgetful(_, _, _, _)
DedupLoopForgetful(reviews, i, seen_texts, unique_reviews) ==
    IF i > Len(reviews) THEN unique_reviews
    ELSE LET text_key == TextKey(reviews[i])
         IN IF text_key \notin seen_texts
            THEN DedupLoopForgetful(reviews, i + 1,
                                    seen_texts \cup {text_key},
                                    Append(unique_reviews, reviews[i]))
            ELSE DedupLoopForgetful(reviews, i + 1, {}, unique_reviews)

\* "for review in reviews", from the i-th record on
RECURSIVE DedupLoop(_, _, _, _)
DedupLoop(reviews, i, seen_texts, unique_reviews) ==
    IF i > Len(reviews) THEN unique_reviews
    ELSE LET text_key == TextKey(reviews[i])
         IN IF text_key \notin seen_texts
            THEN DedupLoop(reviews, i + 1, seen_texts \cup {text_key},
                           Append(unique_reviews, reviews[i]))
            ELSE DedupLoop(reviews, i + 1, seen_texts, unique_reviews)

DeduplicateReviews(reviews) == DedupLoop(reviews, 1, {}, <<>>)

\* f"R{review_id:03d}-Customer"
CustomerReviewId(n) ==
    ReviewId(n) \o <<"-", "C", "u", "s", "t", "o", "m", "e", "r">>

\* a text of DedupKeyLen characters c followed by the character d
LongText(c, d) == Rep(c, DedupKeyLen) \o <<d>>

\* the texts of the records handed to _deduplicate_reviews: texts that differ
\* in case, in surrounding whitespace and after the key, in the last
\* character of the key; a blank text; <<>> is a record without "text"
DedupTexts ==
    { <<LongText("a", "x")>>,
      <<LongText("A", "x")>>,
      <<(<<" ">> \o LongText("a", "z") \o <<"\n">>)>>,
      <<(Rep("a", DedupKeyLen - 1) \o <<"b", "x">>)>>,
      <<(<<" ">>)>>,
      <<>> }

\* the records with these texts, numbered in discovery order
DedupInput(texts) ==
    [i \in 1..Len(texts) |->
       [review_id |-> CustomerReviewId(i), text |-> texts[i]]]

\* scrape_and_integrate is not running
ScrapeIdle ==
    /\ tier_arg = TierBasic
    /\ tier = Lower(tier_arg)
    /\ max_reviews = TierLimitOf(tier)
    /\ review_counter = 1
    /\ customer_url = "ok"
    /\ competitor_urls = <<>>
    /\ pc = "idle"
    /\ target = 0
    /\ step = "none"
    /\ store = Store(0, JmOff, SpOff, YoOff, SeEmpty)
    /\ result = InitResult(0, tier, max_reviews)
    /\ calls = <<>>
    /\ scraped_data = InitResults(tier, max_reviews)
    /\ foundation = <<>>

InitDedup ==
    /\ dd_reviews \in
         {DedupInput(ts) :
            ts \in UNION {[1..k -> DedupTexts] : k \in 0..MaxDedupLen}}
    /\ dd_unique = <<>>
    /\ dd_again = <<>>
    /\ dd_pc = 0
    /\ ScrapeIdle
    /\ CustomerIdle
    /\ QualityIdle
    /\ ConfidenceIdle
    /\ ConvertIdle
    /\ PagingIdle
    /\ SeleniumIdle
    /\ YoutubeIdle

\* unique_reviews = self._deduplicate_reviews(reviews)
Deduplicate ==
    /\ dd_pc = 0
    /\ dd_unique' = DeduplicateReviews(dd_reviews)
    /\ dd_pc' = 1
    /\ UNCHANGED <<dd_reviews, dd_again>>
    /\ UNCHANGED restOfDedup

\* _deduplicate_reviews called on what it returned
DeduplicateAgain ==
    /\ dd_pc = 1
    /\ dd_again' = DeduplicateReviews(dd_unique)
    /\ dd_pc' = 2
    /\ UNCHANGED <<dd_reviews, dd_unique>>
    /\ UNCHANGED restOfDedup

NextDedup ==
    \/ Deduplicate
    \/ DeduplicateAgain

SpecDedup == InitDedup /\ [][NextDedup]_vars

\* the dedup key as the specification words it: the first 100 characters of
\* the stripped, lower-cased text
KeyOf(r) == SubSeq(Lower(Strip(GetText(r))), 1,
                   Min(100, Len(Strip(GetText(r)))))

\* s is a subsequence of t
RECURSIVE IsSubsequence(_, _)
IsSubsequence(s, t) ==
    IF s = <<>> THEN TRUE
    ELSE IF t = <<>> THEN FALSE
    ELSE IF Head(s) = Head(t) THEN IsSubsequence(Tail(s), Tail(t))
    ELSE IsSubsequence(s, Tail(t))

\* the first record of list with the key k
FirstWithKey(list, k) ==
    list[CHOOSE i \in 1..Len(list) :
           /\ KeyOf(list[i]) = k
           /\ \A j \in 1..(i - 1) : KeyOf(list[j]) # k]

\* C11: _deduplicate_reviews returns a subsequence of its input with no two
\* records of the same key, in which every key of the input is represented
\* by the first input record that has it; three records of one key yield
\* exactly the first
C11_FirstOccurrenceWins ==
    dd_pc >= 1 =>
      /\ IsSubsequence(dd_unique, dd_reviews)
      /\ \A i, j \in 1..Len(dd_unique) :
           i # j => KeyOf(dd_unique[i]) # KeyOf(dd_unique[j])
      /\ \A i \in 1..Len(dd_reviews) :
           \E j \in 1..Len(dd_unique) :
             dd_unique[j] = FirstWithKey(dd_reviews, KeyOf(dd_reviews[i]))
      /\ \A i \in 1..Len(dd_unique) :
           dd_unique[i] = FirstWithKey(dd_reviews, KeyOf(dd_unique[i]))
      /\ (/\ Len(dd_reviews) = 3
          /\ KeyOf(dd_reviews[1]) = KeyOf(dd_reviews[2])
          /\ KeyOf(dd_reviews[2]) = KeyOf(dd_reviews[3]))
         => dd_unique = <<dd_reviews[1]>>

\* three records of different texts and one key went in, a record of another
\* key between two of one key went in
C11_Witness ==
    /\ dd_pc >= 1
    /\ Len(dd_reviews) = 3
    /\ KeyOf(dd_reviews[1]) = KeyOf(dd_reviews[2])
    /\ KeyOf(dd_reviews[2]) = KeyOf(dd_reviews[3])
    /\ dd_reviews[1].text # dd_reviews[2].text
    /\ dd_reviews[2].text # dd_reviews[3].text
    /\ dd_reviews[1].text # dd_reviews[3].text
    /\ Len(KeyOf(dd_reviews[1])) = 100
    /\ dd_unique = <<dd_reviews[1]>>

\* C12: deduplicating a deduplicated list changes nothing
C12_Idempotent ==
    dd_pc = 2 => dd_again = dd_unique

\* the first call dropped records and left several
C12_Witness ==
    /\ dd_pc = 2
    /\ Len(dd_unique) < Len(dd_reviews)
    /\ Len(dd_unique) >= 2
    /\ dd_again = dd_unique

(***************************************************************************)
(* CustomerSiteScraper.scrape_customer_site and                            *)
(* CustomerSiteIntegrator.convert_to_foundation_format.                    *)
(***************************************************************************)
MaxReviewLinks == 4

\* "review_page_urls[:3]" and "review_pages[:3]"
MaxReviewPages == 3

\* "len(review_text.strip()) < 20"
MinReviewLen == 20

\* "len(text) < 100" of _is_valid_review
BoilerplateMaxLen == 100

\* "if len(reviews) >= 50: break"
MaxPageReviews == 50

\* keyword in text
Contains(text, keyword) ==
    \E i \in 1..(Len(text) - Len(keyword) + 1) :
       SubSeq(text, i, i + Len(keyword) - 1) = keyword

BoilerplateKeywords ==
    { <<"n", "a", "v", "i", "g", "a", "t", "i", "o", "n">>,
      <<"m", "e", "n", "u">>,
      <<"f", "o", "o", "t", "e", "r">>,
      <<"h", "e", "a", "d", "e", "r">>,
      <<"c", "o", "p", "y", "r", "i", "g", "h", "t">>,
      <<"p", "r", "i", "v", "a", "c", "y", " ", "p", "o", "l", "i", "c", "y">>,
      <<"t", "e", "r", "m", "s", " ", "o", "f", " ", "s", "e", "r", "v", "i", "c", "e">>,
      <<"c", "o", "o", "k", "i", "e", " ", "p", "o", "l", "i", "c", "y">>,
      <<"s", "u", "b", "s", "c", "r", "i", "b", "e">>,
      <<"n", "e", "w", "s", "l", "e", "t", "t", "e", "r">>,
      <<"f", "o", "l", "l", "o", "w", " ", "u", "s">> }

\* _is_valid_review
IsValidReview(review) ==
    LET text == GetText(review)
    IN /\ Len(Strip(text)) >= MinReviewLen
       /\ ~\E keyword \in BoilerplateKeywords :
             Len(text) < BoilerplateMaxLen /\ Contains(Lower(text), keyword)

\* _extract_single_review on an element whose _extract_text_content is
\* review_text: <<>> for None, <<review>> otherwise
ExtractSingleReview(review_text, page_url, review_id) ==
    IF review_text = <<>> \/ Len(Strip(review_text)) < MinReviewLen
    THEN <<>>
    ELSE <<[review_id |-> CustomerReviewId(review_id),
            text |-> <<Strip(review_text)>>,
            source_url |-> page_url]>>

\* "for element in review_elements", from the k-th element on
RECURSIVE ElementLoop(_, _, _, _, _)
ElementLoop(review_elements, k, page_url, reviews, counter) ==
    IF k > Len(review_elements)
    THEN [reviews |-> reviews, counter |-> counter]
    ELSE LET review_data ==
                 ExtractSingleReview(review_elements[k], page_url,
                                     counter)
         IN IF review_data # <<>> /\ IsValidReview(review_data[1])
            THEN IF Len(reviews) + 1 >= MaxPageReviews
                 THEN [reviews |-> Append(reviews, review_data[1]),
                       counter |-> counter + 1]
                 ELSE ElementLoop(review_elements, k + 1, page_url,
                                  Append(reviews, review_data[1]),
                                  counter + 1)
            ELSE ElementLoop(review_elements, k + 1, page_url, reviews,
                             counter)

\* "for selector in self.review_selectors", from the s-th selector on;
\* selectors[s] is what soup.select gives for the s-th selector
RECURSIVE SelectorLoop(_, _, _, _, _)
SelectorLoop(selectors, s, page_url, reviews, counter) ==
    IF s > Len(selectors)
    THEN [reviews |-> reviews, counter |-> counter]
    ELSE LET found == ElementLoop(selectors[s], 1, page_url, reviews,
                                  counter)
         IN IF found.reviews # <<>>
            THEN found
            ELSE SelectorLoop(selectors, s + 1, page_url, found.reviews,
                              found.counter)

\* _parse_structured_review; a script is <<>> when it holds no Review,
\* <<body>> when it holds a Review with that reviewBody
ParseStructuredReview(script, page_url, review_id) ==
    IF script # <<>> /\ script[1] # <<>>
       /\ Len(Strip(script[1])) >= MinReviewLen
    THEN <<[review_id |-> CustomerReviewId(review_id),
            text |-> <<Strip(script[1])>>,
            source_url |-> page_url]>>
    ELSE <<>>

\* _extract_structured_reviews, from the k-th JSON-LD script on
RECURSIVE ExtractStructuredReviews(_, _, _, _, _)
ExtractStructuredReviews(json_scripts, k, page_url, start_id, reviews) ==
    IF k > Len(json_scripts) THEN reviews
    ELSE ExtractStructuredReviews(
             json_scripts, k + 1, page_url, start_id,
             reviews \o ParseStructuredReview(json_scripts[k], page_url,
                                              start_id + Len(reviews)))

\* extract_reviews
ExtractReviews(soup, page_url) ==
    LET found == SelectorLoop(soup.selectors, 1, page_url, <<>>, 1)
        structured_reviews ==
            ExtractStructuredReviews(soup.structured, 1, page_url,
                                     found.counter, <<>>)
    IN DeduplicateReviews(found.reviews \o structured_reviews)

\* a page: whether _fetch_page gives a soup, the elements each of the first
\* review selectors matches, the JSON-LD scripts
SitePage(ok, selectors, structured) ==
    [ok |-> ok, selectors |-> selectors, structured |-> structured]

TestimonialA == LongText("a", "x")

TestimonialACaps == LongText("A", "x")

TestimonialB == Rep("b", MinReviewLen + 5)

TooShort == Rep("c", MinReviewLen - 1)

Boilerplate == <<"S", "u", "b", "s", "c", "r", "i", "b", "e", " ", "t", "o", " ", "o", "u", "r", " ", "n", "e", "w", "s", "l", "e", "t", "t", "e", "r">>

NumberedText(i) == Rep("r", MinReviewLen) \o Digits(i)

\* the same testimonial twice in different case, a JSON-LD copy of another
PageA ==
    SitePage(TRUE, <<(<<TestimonialA, TestimonialB, TestimonialACaps>>)>>,
             <<(<<(<<" ">> \o TestimonialB)>>), <<>> >>)

\* nothing valid under the first selector, one testimonial under the second
PageB ==
    SitePage(TRUE, << <<TooShort, Boilerplate>>, <<TestimonialA>> >>, <<>>)

\* more reviews than one page may give
PageC ==
    SitePage(TRUE,
             <<[i \in 1..(MaxPageReviews + 2) |-> NumberedText(i)]>>, <<>>)

PageEmpty == SitePage(TRUE, <<>>, <<>>)

PageFail == SitePage(FALSE, <<>>, <<>>)

\* the customer website: its main page and the review pages it links to
CustomerSites ==
    { [main |-> m, links |-> l] :
        m \in {PageA, PageB, PageC, PageEmpty, PageFail},
        l \in UNION {[1..k -> {PageA, PageFail}] :
                       k \in 0..MaxReviewLinks} }

\* _find_review_pages
FindReviewPages(site) == Take(site.links, MaxReviewPages)

\* result as initialised by scrape_customer_site
InitCustomerResult ==
    [url |-> 0, reviews |-> <<>>, total_reviews |-> 0,
     data_quality |-> [reviews_found |-> FALSE, scrape_successful |-> FALSE,
                       pages_scraped |-> 0, errors |-> <<>>]]

InitCustomer ==
    /\ cs_site \in CustomerSites
    /\ cs_result = InitCustomerResult
    /\ cs_pages = <<>>
    /\ cs_i = 0
    /\ cs_pc = "main"
    /\ cs_foundation = <<>>

\* the main page: fetched, its reviews extracted, its review links found
ScrapeMainPage ==
    /\ cs_pc = "main"
    /\ IF ~cs_site.main.ok
       THEN /\ cs_result' =
                 [cs_result EXCEPT !.data_quality.errors =
                    Append(@, "Failed to fetch main page")]
            /\ cs_pc' = "scraped"
            /\ UNCHANGED <<cs_pages, cs_i>>
       ELSE /\ cs_result' =
                 [cs_result EXCEPT
                    !.data_quality.pages_scraped = @ + 1,
                    !.reviews = @ \o ExtractReviews(cs_site.main, 0)]
            /\ cs_pages' = Take(FindReviewPages(cs_site), MaxReviewPages)
            /\ cs_i' = 1
            /\ cs_pc' = "pages"
    /\ UNCHANGED <<cs_site, cs_foundation>>
    /\ UNCHANGED restOfCustomer

\* "for review_url in review_pages[:3]", one page
ScrapeReviewPage ==
    /\ cs_pc = "pages"
    /\ cs_i <= Len(cs_pages)
    /\ cs_result' =
         IF cs_pages[cs_i].ok
         THEN [cs_result EXCEPT
                 !.data_quality.pages_scraped = @ + 1,
                 !.reviews = @ \o ExtractReviews(cs_pages[cs_i], cs_i)]
         ELSE cs_result
    /\ cs_i' = cs_i + 1
    /\ UNCHANGED <<cs_site, cs_pages, cs_pc, cs_foundation>>
    /\ UNCHANGED restOfCustomer

\* "Calculate data quality metrics", return result
FinishCustomerScrape ==
    /\ cs_pc = "pages"
    /\ cs_i > Len(cs_pages)
    /\ cs_result' =
         [cs_result EXCEPT
            !.total_reviews = Len(cs_result.reviews),
            !.data_quality.reviews_found = Len(cs_result.reviews) > 0,
            !.data_quality.scrape_successful = TRUE]
    /\ cs_pc' = "scraped"
    /\ UNCHANGED <<cs_site, cs_pages, cs_i, cs_foundation>>
    /\ UNCHANGED restOfCustomer

\* CustomerSiteIntegrator._calculate_confidence_level
CustomerConfidenceLevel(scraped) ==
    LET review_count == scraped.total_reviews
        pages_scraped == scraped.data_quality.pages_scraped
    IN IF review_count >= 20 /\ pages_scraped > 1 THEN "high"
       ELSE IF review_count >= 10 \/ pages_scraped > 0 THEN "medium"
       ELSE "low"

\* CustomerSiteIntegrator.convert_to_foundation_format
CustomerConvertToFoundationFormat(scraped) ==
    LET foundation_reviews ==
            [i \in 1..Len(scraped.reviews) |->
               [review_id |-> ReviewId(i),
                text |-> scraped.reviews[i].text,
                source_url |-> scraped.reviews[i].source_url]]
    IN [source_type |-> "customer_url",
        reviews |-> foundation_reviews,
        review_count |-> Len(foundation_reviews),
        data_quality |->
          [scrape_successful |-> scraped.data_quality.scrape_successful,
           pages_scraped |-> scraped.data_quality.pages_scraped,
           reviews_found |-> Len(foundation_reviews) > 0,
           has_minimum_reviews |-> Len(foundation_reviews) >= 20,
           confidence_level |-> CustomerConfidenceLevel(scraped)]]

\* CustomerSiteIntegrator converts what the scraper returned
ConvertCustomer ==
    /\ cs_pc = "scraped"
    /\ cs_foundation' = <<CustomerConvertToFoundationFormat(cs_result)>>
    /\ cs_pc' = "done"
    /\ UNCHANGED <<cs_site, cs_result, cs_pages, cs_i>>
    /\ UNCHANGED restOfCustomer

(***************************************************************************)
(* ShopifyIntegrator.convert_to_foundation_format.                         *)
(***************************************************************************)
\* ShopifyIntegrator._calculate_confidence_level
ConfidenceLevel(scraped) ==
    LET review_count == scraped.total_reviews
        method == scraped.scrape_method
    IN IF review_count >= 20 /\ method \in {"judge.me_api", "yotpo_api"}
       THEN "high"
       ELSE IF review_count >= 20 \/ method = "selenium" THEN "medium"
       ELSE IF review_count >= 10 THEN "low"
       ELSE "very_low"

ConvertToFoundationFormat(scraped) ==
    LET foundation_reviews ==
            [j \in 1..Len(scraped.reviews) |->
               [review_id |-> ReviewId(scraped.reviews[j].n),
                text |-> scraped.reviews[j].text,
                source_url |-> scraped.url,
                metadata |-> [source |-> "shopify_store",
                              extraction_method |-> scraped.scrape_method]]]
    IN [source_type |-> "customer_url",
        reviews |-> foundation_reviews,
        review_count |-> Len(foundation_reviews),
        data_quality |->
          [scrape_successful |-> scraped.total_reviews > 0,
           pages_scraped |-> 1,
           reviews_found |-> Len(foundation_reviews) > 0,
           has_minimum_reviews |-> Len(foundation_reviews) >= 20,
           confidence_level |-> ConfidenceLevel(scraped),
           extraction_method |-> scraped.scrape_method,
           api_attempts |-> scraped.data_quality.api_attempts]]

\* convert_to_foundation_format applied to what scrape_shopify_reviews
\* returned
ConvertShopifyResult ==
    /\ pc = "scraped"
    /\ ~MultiStore
    /\ foundation' = <<ConvertToFoundationFormat(result)>>
    /\ pc' = "done"
    /\ UNCHANGED <<tier_arg, tier, max_reviews, review_counter, customer_url,
                   competitor_urls, target, step, store, result, calls,
                   scraped_data>>
    /\ UNCHANGED restOfScrape

(***************************************************************************)
(* One target, scraped and converted by its single-target converter: a     *)
(* Shopify store or a customer website.                                    *)
(***************************************************************************)
InitSingleTarget ==
    \/ /\ Init
       /\ competitor_urls = <<>>
    \/ /\ InitCustomer
       /\ ScrapeIdle
       /\ DedupIdle
       /\ QualityIdle
       /\ ConfidenceIdle
       /\ ConvertIdle
       /\ PagingIdle
       /\ SeleniumIdle
       /\ YoutubeIdle

NextSingleTarget ==
    \/ BeginScrape
    \/ TryJudgeMe
    \/ TryShopifyProduct
    \/ TryYotpo
    \/ SeleniumFallback
    \/ FinishScrape
    \/ ReturnScraped
    \/ ConvertShopifyResult
    \/ ScrapeMainPage
    \/ ScrapeReviewPage
    \/ FinishCustomerScrape
    \/ ConvertCustomer

SpecSingleTarget == InitSingleTarget /\ [][NextSingleTarget]_vars

\* scrape_customer_site has returned cs_result
CustomerScraped == cs_pc \in {"scraped", "done"}

\* C13: the reviews scrape_customer_site accumulated over the main page and
\* the review pages hold no two reviews of the same dedup key
C13_NoDuplicateKeys ==
    CustomerScraped =>
      \A i, j \in 1..Len(cs_result.reviews) :
         i # j => KeyOf(cs_result.reviews[i]) # KeyOf(cs_result.reviews[j])

\* C20: a single-target scrape that collected no review is converted to a
\* report of confidence_level very_low, by either converter
C20_EmptyIsVeryLow ==
    /\ (pc = "done" /\ result.total_reviews = 0)
         => foundation[1].data_quality.confidence_level = "very_low"
    /\ (cs_pc = "done" /\ cs_result.reviews = <<>>)
         => cs_foundation[1].data_quality.confidence_level = "very_low"

(***************************************************************************)
(* DataIntegrator.integrate_all_sources and                                *)
(* DemographicsFoundationPrompt.validate_data_quality.                     *)
(***************************************************************************)
MaxCompetitorFiles == 3

\* "self.minimum_reviews = 20"
MinimumReviews == 20

\* "discovered['competitor'][:5]"
MaxIntegratedCompetitors == 5

\* a JSON file of the job: the source its name maps to, whether json.load
\* gives a non-empty dict, the number of reviews (comments, posts) in it
DataFile(id, kind, ok, n) == [id |-> id, kind |-> kind, ok |-> ok, n |-> n]

\* search_patterns: f"*{job_id}*.json", f"*{job_id}*.csv",
\* f"job_{job_id}_*.json", f"{job_id}_*.json"
SearchPatterns == <<"any_json", "any_csv", "job_prefix", "id_prefix">>

\* whether rglob(pattern) finds a .json file whose name holds the job id at
\* the place `style` says: after "job_", at the start, elsewhere
PatternMatches(pattern, style) == pattern = "any_json" \/ pattern = style

\* discover_data_sources: discovered[source_type], patterns p.. on
RECURSIVE DiscoverDataSources(_, _, _)
DiscoverDataSources(dir, p, source_type) ==
    IF p > Len(SearchPatterns) THEN <<>>
    ELSE (IF PatternMatches(SearchPatterns[p], dir.style)
          THEN SelectSeq(dir.files, LAMBDA f : f.kind = source_type)
          ELSE <<>>)
           \o DiscoverDataSources(dir, p + 1, source_type)

\* load_json_data followed by "if data:": <<>> for None
LoadJsonData(file) == IF file.ok THEN <<file>> ELSE <<>>

\* extract_reviews_from_source; a review is known by its file and position
ExtractReviewsFromSource(data, source_type) ==
    IF source_type \in {"customer_amazon", "youtube", "reddit", "competitor"}
    THEN [k \in 1..data.n |-> [src |-> data.id, k |-> k]]
    ELSE <<>>

\* IntegratedDataSource(...); has_rate: metadata holds a
\* verified_purchase_rate
IntegratedDataSource(source_type, reviews, has_rate, rate) ==
    [source_type |-> source_type, reviews |-> reviews,
     has_rate |-> has_rate, verified_purchase_rate |-> rate]

\* the first discovered file of a source, loaded: <<>> when there is none
\* or it does not load
FirstLoaded(dir, source_type) ==
    LET found == DiscoverDataSources(dir, 1, source_type)
    IN IF found = <<>> THEN <<>> ELSE LoadJsonData(found[1])

\* "for comp_file in discovered['competitor'][:5]", entries i.. on
RECURSIVE IntegrateCompetitors(_, _)
IntegrateCompetitors(comp_files, i) ==
    IF i > Len(comp_files) THEN <<>>
    ELSE LET data == LoadJsonData(comp_files[i])
         IN (IF data # <<>>
             THEN <<IntegratedDataSource(
                       "competitor",
                       ExtractReviewsFromSource(data[1], "competitor"),
                       FALSE, 0)>>
             ELSE <<>>)
              \o IntegrateCompetitors(comp_files, i + 1)

RECURSIVE SumReviews(_)
SumReviews(sources) ==
    IF sources = <<>> THEN 0
    ELSE Len(Head(sources).reviews) + SumReviews(Tail(sources))

\* integrate_all_sources
IntegrateAllSourcesOf(rd, dir) ==
    LET url_data == FirstLoaded(dir, "customer_url")
        customer_url_data ==
            IF url_data # <<>>
            THEN <<IntegratedDataSource(
                      "customer_url",
                      ExtractReviewsFromSource(url_data[1], "customer_url"),
                      FALSE, 0)>>
            ELSE rd.customer_url_data
        amazon_found == DiscoverDataSources(dir, 1, "customer_amazon")
        amazon_data == FirstLoaded(dir, "customer_amazon")
        \* "reviews = review_data.amazon_reviews" then "reviews.extend":
        \* one list under two names
        reviews ==
            rd.amazon_reviews \o
              (IF amazon_data # <<>>
               THEN ExtractReviewsFromSource(amazon_data[1],
                                             "customer_amazon")
               ELSE <<>>)
        amazon_done == amazon_found # <<>> \/ rd.amazon_reviews # <<>>
        customer_amazon_data ==
            IF amazon_done
            THEN <<IntegratedDataSource(
                      "customer_amazon", reviews, TRUE,
                      IF rd.review_insights.verification_rate = <<>>
                      THEN 0
                      ELSE rd.review_insights.verification_rate[1])>>
            ELSE rd.customer_amazon_data
        competitors ==
            IntegrateCompetitors(
                Take(DiscoverDataSources(dir, 1, "competitor"),
                     MaxIntegratedCompetitors), 1)
        youtube == FirstLoaded(dir, "youtube")
        youtube_data ==
            IF youtube # <<>>
            THEN <<IntegratedDataSource(
                      "youtube",
                      ExtractReviewsFromSource(youtube[1], "youtube"),
                      FALSE, 0)>>
            ELSE rd.youtube_data
        reddit == FirstLoaded(dir, "reddit")
        reddit_data ==
            IF reddit # <<>>
            THEN <<IntegratedDataSource(
                      "reddit",
                      ExtractReviewsFromSource(reddit[1], "reddit"),
                      FALSE, 0)>>
            ELSE rd.reddit_data
        total_reviews ==
            (IF url_data # <<>> THEN Len(customer_url_data[1].reviews)
             ELSE 0)
            + (IF amazon_done THEN Len(reviews) ELSE 0)
            + SumReviews(competitors)
            + (IF youtube # <<>> THEN Len(youtube_data[1].reviews) ELSE 0)
            + (IF reddit # <<>> THEN Len(reddit_data[1].reviews) ELSE 0)
    IN [rd EXCEPT
          !.customer_url_data = customer_url_data,
          !.amazon_reviews = IF amazon_done THEN reviews ELSE @,
          !.customer_amazon_data = customer_amazon_data,
          !.competitor_data = @ \o competitors,
          !.youtube_data = youtube_data,
          !.reddit_data = reddit_data,
          !.review_insights.total_integrated_reviews = <<total_reviews>>]

\* len(source.reviews) if source else 0
LenOrZero(source) == IF source = <<>> THEN 0 ELSE Len(source[1].reviews)

\* the f-string of the minimum-sample warning, with its review count
MinimumSampleWarning(total_reviews) ==
    [prefix |-> "WARNING: Sample size below recommended minimum",
     source |-> "", current |-> total_reviews]

\* f"DATA LIMITATION: {source} not available for analysis."
DataLimitationWarning(source) ==
    [prefix |-> "DATA LIMITATION", source |-> source, current |-> 0]

\* _calculate_quality_score; rates are percentages
QualityScore(total_reviews, has_minimum, missing_count, verification_rate) ==
    LET score ==
            100
            - (IF ~has_minimum THEN 30
               ELSE IF total_reviews < 50 THEN 15 ELSE 0)
            - missing_count * 10
            - (IF verification_rate # <<>> /\ verification_rate[1] < 50
               THEN 20 ELSE 0)
    IN IF score < 0 THEN 0 ELSE score

\* faulty variant: the source checks run before the minimum check
ValidateDataQualityOfLateMinimum(rd) ==
    LET total_reviews ==
            Len(rd.amazon_reviews) + Len(rd.competitor_reviews)
            + LenOrZero(rd.customer_url_data)
            + LenOrZero(rd.customer_amazon_data)
            + LenOrZero(rd.youtube_data) + LenOrZero(rd.reddit_data)
            + SumReviews(rd.competitor_data)
        has_minimum_reviews == total_reviews >= MinimumReviews
        no_amazon == rd.amazon_reviews = <<>> /\ rd.customer_amazon_data = <<>>
        no_competitor == rd.competitor_reviews = <<>> /\ rd.competitor_data = <<>>
    IN [total_reviews |-> total_reviews,
        has_minimum_reviews |-> has_minimum_reviews,
        missing_sources |->
            (IF no_amazon THEN <<"Amazon reviews">> ELSE <<>>)
            \o (IF no_competitor THEN <<"Competitor reviews">> ELSE <<>>),
        verification_rate |-> <<>>,
        warnings |->
            (IF no_amazon THEN <<DataLimitationWarning("Amazon reviews")>>
             ELSE <<>>)
            \o (IF no_competitor
                THEN <<DataLimitationWarning("Competitor reviews")>>
                ELSE <<>>)
            \o (IF ~has_minimum_reviews
                THEN <<MinimumSampleWarning(total_reviews)>> ELSE <<>>),
        quality_score |-> 0,
        time_period_coverage |-> "Date information not available"]

\* validate_data_quality
ValidateDataQualityOf(rd) ==
    LET total_reviews ==
            Len(rd.amazon_reviews) + Len(rd.competitor_reviews)
            + LenOrZero(rd.customer_url_data)
            + LenOrZero(rd.customer_amazon_data)
            + LenOrZero(rd.youtube_data) + LenOrZero(rd.reddit_data)
            + SumReviews(rd.competitor_data)
        has_minimum_reviews == total_reviews >= MinimumReviews
        no_amazon == rd.amazon_reviews = <<>> /\ rd.customer_amazon_data = <<>>
        no_competitor == rd.competitor_reviews = <<>> /\ rd.competitor_data = <<>>
        missing_sources ==
            (IF no_amazon THEN <<"Amazon reviews">> ELSE <<>>)
            \o (IF no_competitor THEN <<"Competitor reviews">> ELSE <<>>)
            \o (IF rd.youtube_data = <<>> THEN <<"YouTube comments">>
                ELSE <<>>)
            \o (IF rd.reddit_data = <<>> THEN <<"Reddit discussions">>
                ELSE <<>>)
            \o (IF ~rd.target_keywords THEN <<"Target keywords">> ELSE <<>>)
            \o (IF ~rd.amazon_url THEN <<"Amazon product URL">> ELSE <<>>)
            \o (IF ~rd.primary_website THEN <<"Primary website">> ELSE <<>>)
        warnings ==
            (IF ~has_minimum_reviews
             THEN <<MinimumSampleWarning(total_reviews)>> ELSE <<>>)
            \o (IF no_amazon THEN <<DataLimitationWarning("Amazon reviews")>>
                ELSE <<>>)
            \o (IF no_competitor
                THEN <<DataLimitationWarning("Competitor reviews")>>
                ELSE <<>>)
        verification_rate ==
            IF rd.customer_amazon_data # <<>>
               /\ rd.customer_amazon_data[1].has_rate
            THEN <<rd.customer_amazon_data[1].verified_purchase_rate>>
            ELSE rd.review_insights.verification_rate
    IN [total_reviews |-> total_reviews,
        has_minimum_reviews |-> has_minimum_reviews,
        missing_sources |-> missing_sources,
        verification_rate |-> verification_rate,
        warnings |-> warnings,
        quality_score |->
            QualityScore(total_reviews, has_minimum_reviews,
                         Len(missing_sources), verification_rate),
        \* the reviews of the model carry no date
        time_period_coverage |-> "Date information not available"]

\* n reviews the caller put into the ReviewData itself
BaseReviews(src, n) == [k \in 1..n |-> [src |-> src, k |-> k]]

\* the ReviewData a caller constructs: the reviews it holds, whether
\* review_insights has a verification_rate, whether target_keywords,
\* amazon_url and primary_website are non-empty
BaseReviewData ==
    { [amazon_reviews |-> BaseReviews("amazon", a),
       competitor_reviews |-> BaseReviews("competitor", c),
       review_insights |-> [verification_rate |-> v,
                            total_integrated_reviews |-> <<>>],
       target_keywords |-> t[1], amazon_url |-> t[2],
       primary_website |-> t[3],
       customer_url_data |-> <<>>, customer_amazon_data |-> <<>>,
       competitor_data |-> <<>>, youtube_data |-> <<>>,
       reddit_data |-> <<>>] :
        a \in {0, 3, 20}, c \in {0, 1}, v \in {<<>>, <<75>>},
        t \in {<<TRUE, TRUE, TRUE>>, <<FALSE, TRUE, TRUE>>,
               <<FALSE, FALSE, FALSE>>} }

\* the files under base_path: at most one per customer source, several
\* competitor files, all named in one style
DataDirs ==
    { [style |-> st,
       files |-> u \o a \o [k \in 1..c |-> DataFile(10 + k, "competitor",
                                                    TRUE, 2)]
                   \o y \o r] :
        st \in {"job_prefix", "id_suffix"},
        u \in {<<>>, <<DataFile(1, "customer_url", TRUE, 4)>>},
        a \in {<<>>, <<DataFile(2, "customer_amazon", TRUE, 1)>>,
               <<DataFile(2, "customer_amazon", FALSE, 1)>>},
        c \in 0..MaxCompetitorFiles,
        y \in {<<>>, <<DataFile(3, "youtube", TRUE, 17)>>},
        r \in {<<>>, <<DataFile(4, "reddit", TRUE, 2)>>} }

InitQuality ==
    /\ rd_files \in DataDirs
    /\ rd_data \in BaseReviewData
    /\ rd_report = <<>>
    /\ rd_pc = "base"
    /\ ScrapeIdle
    /\ DedupIdle
    /\ CustomerIdle
    /\ ConfidenceIdle
    /\ ConvertIdle
    /\ PagingIdle
    /\ SeleniumIdle
    /\ YoutubeIdle

\* enhanced_data = integrator.integrate_all_sources(job_id, base_review_data)
IntegrateAllSources ==
    /\ rd_pc = "base"
    /\ rd_data' = IntegrateAllSourcesOf(rd_data, rd_files)
    /\ rd_pc' = "integrated"
    /\ UNCHANGED <<rd_files, rd_report>>
    /\ UNCHANGED restOfQuality

\* quality_report = processor.validate_data_quality(review_data), on what
\* the caller built or on what integrate_all_sources returned
ValidateDataQuality ==
    /\ rd_pc \in {"base", "integrated"}
    /\ rd_report' = <<ValidateDataQualityOf(rd_data)>>
    /\ rd_pc' = IF rd_pc = "base" THEN "validated_base" ELSE "validated"
    /\ UNCHANGED <<rd_files, rd_data>>
    /\ UNCHANGED restOfQuality

NextQuality ==
    \/ IntegrateAllSources
    \/ ValidateDataQuality

SpecQuality == InitQuality /\ [][NextQuality]_vars

\* validate_data_quality has returned rd_report[1]
Validated == rd_pc \in {"validated_base", "validated"}

IsMinimumSampleWarning(w) ==
    w.prefix = "WARNING: Sample size below recommended minimum"

\* C14: has_minimum_reviews is total_reviews >= 20; below 20 the
\* minimum-sample warning is in warnings and is the first one; from 20 on it
\* is absent
C14_MinimumWarning ==
    Validated =>
      LET report == rd_report[1]
      IN /\ report.has_minimum_reviews = (report.total_reviews >= 20)
         /\ report.total_reviews < 20 =>
              /\ report.warnings # <<>>
              /\ IsMinimumSampleWarning(report.warnings[1])
              /\ report.warnings[1].current = report.total_reviews
         /\ report.total_reviews >= 20 =>
              \A i \in 1..Len(report.warnings) :
                 ~IsMinimumSampleWarning(report.warnings[i])

\* a report of 19 reviews with another warning after the minimum one
C14_Witness ==
    /\ Validated
    /\ rd_report[1].total_reviews = 19
    /\ ~rd_report[1].has_minimum_reviews
    /\ Len(rd_report[1].warnings) >= 2
    /\ IsMinimumSampleWarning(rd_report[1].warnings[1])

\* the missing_sources entries that name a data source
DataSourceNames ==
    {"Amazon reviews", "Competitor reviews", "YouTube comments",
     "Reddit discussions"}

\* C15: every data source in missing_sources has a data-limitation warning
\* that names it
C15_MissingSourceWarned ==
    Validated =>
      LET report == rd_report[1]
      IN \A i \in 1..Len(report.missing_sources) :
            report.missing_sources[i] \in DataSourceNames =>
              \E j \in 1..Len(report.warnings) :
                 /\ report.warnings[j].prefix = "DATA LIMITATION"
                 /\ report.warnings[j].source = report.missing_sources[i]

\* the reviews of a ReviewData, each once
AllReviews(rd) ==
    LET Range(seq) == {seq[i] : i \in 1..Len(seq)}
        Of(source) == IF source = <<>> THEN {} ELSE Range(source[1].reviews)
    IN Range(rd.amazon_reviews) \cup Range(rd.competitor_reviews)
       \cup Of(rd.customer_url_data) \cup Of(rd.customer_amazon_data)
       \cup Of(rd.youtube_data) \cup Of(rd.reddit_data)
       \cup UNION {Range(rd.competitor_data[i].reviews) :
                     i \in 1..Len(rd.competitor_data)}

\* C16: after integrate_all_sources, validate_data_quality reports as
\* total_reviews the number of reviews of the sub-sources, each counted once
C16_TotalCountsEachOnce ==
    rd_pc = "validated" =>
      rd_report[1].total_reviews = Cardinality(AllReviews(rd_data))

(***************************************************************************)
(* The two confidence-level functions of ShopifyIntegrator applied to two  *)
(* review counts, lower <= higher, with everything else they read held     *)
(* fixed: the summary's successful_scrapes and stores_scraped for the      *)
(* multi-store function, scrape_method for the single-store one.           *)
(***************************************************************************)
MaxConfReviews == 51

MaxConfStores == 5

ScrapeMethods == {"", "judge.me_api", "shopify_product_api", "yotpo_api",
                  "selenium"}

ConfidenceInput(fn, lower, higher, successful, stores, method) ==
    [fn |-> fn, lower |-> lower, higher |-> higher,
     successful |-> successful, stores |-> stores, method |-> method]

\* the part of scraped_data _calculate_multi_store_confidence_level reads
SummaryOf(total, successful, stores) ==
    [has_summary |-> TRUE,
     summary |-> [stores_scraped |-> stores, total_reviews |-> total,
                  successful_scrapes |-> successful, failed_scrapes |-> 0]]

\* the part of a scrape result _calculate_confidence_level reads
ScrapedOf(total, method) ==
    [total_reviews |-> total, scrape_method |-> method]

\* stores_scraped starts at 1 and grows with successful_scrapes
InitConfidence ==
    /\ \E lo \in 0..MaxConfReviews : \E hi \in lo..MaxConfReviews :
          \/ \E st \in 1..MaxConfStores : \E sc \in 0..st :
                cf_in = <<ConfidenceInput("multi_store", lo, hi, sc, st, "")>>
          \/ \E mt \in ScrapeMethods :
                cf_in = <<ConfidenceInput("single_store", lo, hi, 0, 1, mt)>>
    /\ cf_out = <<>>
    /\ cf_pc = "start"
    /\ ScrapeIdle
    /\ DedupIdle
    /\ CustomerIdle
    /\ QualityIdle
    /\ ConvertIdle
    /\ PagingIdle
    /\ SeleniumIdle
    /\ YoutubeIdle

CalculateMultiStoreConfidenceLevel ==
    /\ cf_pc = "start"
    /\ cf_in[1].fn = "multi_store"
    /\ LET x == cf_in[1]
       IN cf_out' =
            <<[lower |-> MultiStoreConfidenceLevel(
                           SummaryOf(x.lower, x.successful, x.stores)),
               higher |-> MultiStoreConfidenceLevel(
                            SummaryOf(x.higher, x.successful, x.stores))]>>
    /\ cf_pc' = "done"
    /\ UNCHANGED cf_in
    /\ UNCHANGED restOfConfidence

CalculateConfidenceLevel ==
    /\ cf_pc = "start"
    /\ cf_in[1].fn = "single_store"
    /\ LET x == cf_in[1]
       IN cf_out' =
            <<[lower |-> ConfidenceLevel(ScrapedOf(x.lower, x.method)),
               higher |-> ConfidenceLevel(ScrapedOf(x.higher, x.method))]>>
    /\ cf_pc' = "done"
    /\ UNCHANGED cf_in
    /\ UNCHANGED restOfConfidence

NextConfidence ==
    \/ CalculateMultiStoreConfidenceLevel
    \/ CalculateConfidenceLevel

SpecConfidence == InitConfidence /\ [][NextConfidence]_vars

\* the ordinal scale very_low < low < medium < high
Rank(level) ==
    CASE level = "very_low" -> 0
      [] level = "low" -> 1
      [] level = "medium" -> 2
      [] level = "high" -> 3

\* C17: with the success ratio (multi-store function) or the scrape method
\* (single-store function) held fixed, the confidence level of the higher
\* review count is never below the confidence level of the lower one.
C17_ConfidenceMonotone ==
    cf_pc = "done" => Rank(cf_out[1].lower) <= Rank(cf_out[1].higher)

\* the multi-store function climbed from low to high at a success ratio
\* below 1
C17_Witness ==
    /\ cf_pc = "done"
    /\ cf_in[1].fn = "multi_store"
    /\ cf_in[1].lower < cf_in[1].higher
    /\ cf_in[1].successful < cf_in[1].stores
    /\ cf_out[1] = [lower |-> "low", higher |-> "high"]

(***************************************************************************)
(* data_quality of the report scrape_and_integrate returns.                *)
(***************************************************************************)
\* scrape_and_integrate has returned Report
Reported == pc = "done" /\ foundation # <<>>

HighTrustMethods == {"judge.me_api", "yotpo_api"}

\* the results of the targets whose scrape returned
TargetResults ==
    scraped_data.customer_data \o scraped_data.competitor_data

\* C18: a single-target run in which Judge.me or Yotpo supplied at least 20
\* reviews after capping reports has_minimum_reviews and a confidence level
\* of medium or high.
C18_SingleApiRunConfident ==
    ( /\ Reported
      /\ ~MultiStore
      /\ result.scrape_method \in HighTrustMethods
      /\ result.total_reviews >= 20 )
    => /\ Report.data_quality.has_minimum_reviews
       /\ Report.data_quality.confidence_level \in {"medium", "high"}

\* no adapter of any target returned a record
NoRecordAnywhere ==
    \A i \in 1..Len(TargetResults) : TargetResults[i].total_reviews = 0

MultiStoreReturned == MultiStore /\ pc \in {"scraped", "done"}

\* the competitors whose call of scrape_shopify_reviews returned, by
\* position in competitor_urls
RECURSIVE CompletedCompetitors(_)
CompletedCompetitors(i) ==
    IF i > NumCompetitors THEN <<>>
    ELSE (IF competitor_urls[i] = "ok" THEN <<i>> ELSE <<>>)
           \o CompletedCompetitors(i + 1)

CompetitorNumbers ==
    [i \in 1..Len(scraped_data.competitor_data) |->
        scraped_data.competitor_data[i].competitor_number]

\* C21: an exception while scraping one target of
\* scrape_customer_and_competitors never reaches the caller, and once the
\* call has returned competitor_data holds every competitor whose scrape
\* completed, in input order.
C21_FailuresIsolated ==
    /\ MultiStore => pc # "raised"
    /\ MultiStoreReturned => CompetitorNumbers = CompletedCompetitors(1)

\* customer and first competitor failed, the second competitor was scraped
\* and gave reviews
C21_Witness ==
    /\ MultiStoreReturned
    /\ customer_url = "unparseable"
    /\ competitor_urls = <<"unparseable", "ok">>
    /\ scraped_data.customer_data = <<>>
    /\ CompetitorNumbers = <<2>>
    /\ scraped_data.competitor_data[1].total_reviews > 0
    /\ scraped_data.summary.failed_scrapes = 2


(***************************************************************************)
(* convert_multi_store_to_foundation_format called twice with the same     *)
(* scraped_data, job_id and keywords, each call in an interpreter run of   *)
(* its own.  metadata.timestamp is not part of the modelled report.        *)
(***************************************************************************)
MaxConvCompetitors == 2

MaxConvReviews == 2

\* the "source" an adapter gives its reviews, by the scrape_method it sets
MethodSource(method) ==
    CASE method = "judge.me_api" -> "judge.me"
      [] method = "shopify_product_api" -> "shopify_native"
      [] method = "yotpo_api" -> "yotpo"
      [] method = "selenium" -> "selenium_scrape"

\* what scrape_shopify_reviews returns for target t when `method` gave n
\* reviews
ScrapedTarget(t, method, n) ==
    FinalResult([InitResult(t, TierBasic, BasicLimit) EXCEPT
                   !.scrape_method = method,
                   !.reviews = [j \in 1..n |->
                                  Review(j, Text(j, 0), MethodSource(method))]])

\* the competitor loop of scrape_customer_and_competitors over competitors
\* i.. whose scrapes returned with methods[i] and n reviews each
RECURSIVE ScrapedCompetitors(_, _, _, _)
ScrapedCompetitors(sd, methods, i, n) ==
    IF i > Len(methods) THEN sd
    ELSE ScrapedCompetitors(
           RecordCompetitor(sd, ScrapedTarget(i, methods[i], n), i),
           methods, i + 1, n)

\* scrape_customer_and_competitors' results: customer is <<>> when the
\* customer scrape failed, else <<its method>>
ScrapedStores(customer, methods, n) ==
    LET sd == InitResults(TierBasic, BasicLimit)
    IN ScrapedCompetitors(
         IF customer = <<>> THEN TargetFailed(sd)
         ELSE RecordCustomer(sd, ScrapedTarget(0, customer[1], n)),
         methods, 1, n)

\* the methods a scrape that gave n reviews can end with: an API method
\* is set only when the API gave reviews
MethodsFor(n) ==
    IF n = 0 THEN {"selenium"}
    ELSE {"judge.me_api", "shopify_product_api", "yotpo_api", "selenium"}

InitConvert ==
    /\ \E n \in 0..MaxConvReviews : \E k \in 1..MaxConvCompetitors :
          \E customer \in {<<>>} \cup {<<m>> : m \in MethodsFor(n)} :
            \E methods \in [1..k -> MethodsFor(n)] :
                cv_in = <<ScrapedStores(customer, methods, n)>>
    /\ cv_out = <<>>
    /\ cv_pc = "start"
    /\ ScrapeIdle
    /\ DedupIdle
    /\ CustomerIdle
    /\ QualityIdle
    /\ ConfidenceIdle
    /\ PagingIdle
    /\ SeleniumIdle
    /\ YoutubeIdle

\* one call of convert_multi_store_to_foundation_format(cv_in, job_id,
\* keywords)
ConvertMultiStoreToFoundationFormat ==
    /\ cv_pc \in {"start", "called"}
    /\ Len(cv_out) < 2
    /\ \E extraction_methods \in ListOfSet(ExtractionMethodList(cv_in[1])) :
         cv_out' = Append(cv_out,
                          ConvertMultiStore(cv_in[1], extraction_methods))
    /\ cv_pc' = "called"
    /\ UNCHANGED cv_in
    /\ UNCHANGED restOfConvert

NextConvert == ConvertMultiStoreToFoundationFormat

SpecConvert == InitConvert /\ [][NextConvert]_vars

\* C22: two calls of convert_multi_store_to_foundation_format with equal
\* arguments return reports that are equal in every field, the order of
\* data_quality.extraction_methods included.
C22_ConvertDeterministic ==
    Len(cv_out) = 2 => cv_out[1] = cv_out[2]


(***************************************************************************)
(* data_quality.verification_rate of the report.                           *)
(***************************************************************************)
\* the reviews of all scraped targets as the adapters built them
RECURSIVE ScrapedReviews(_, _)
ScrapedReviews(results, i) ==
    IF i > Len(results) THEN <<>>
    ELSE results[i].reviews \o ScrapedReviews(results, i + 1)

\* some scraped review carries a verification flag
VerificationData ==
    \E i \in 1..Len(ScrapedReviews(TargetResults, 1)) :
        HasVerifiedKey(ScrapedReviews(TargetResults, 1)[i])

VerifiedCount ==
    Cardinality({i \in 1..Len(Report.reviews) : Report.reviews[i].verified})

\* C23: verification_rate is absent when no review of the report carries a
\* verified field, and otherwise is the fraction of verified reviews, between
\* 0 and 1.
C23_VerificationRate ==
    Reported =>
        IF VerificationData
        THEN /\ Report.data_quality.verification_rate =
                  <<Rate(VerifiedCount, Len(Report.reviews))>>
             /\ VerifiedCount <= Len(Report.reviews)
        ELSE Report.data_quality.verification_rate = <<>>


(***************************************************************************)
(* The pagination loops of _try_judge_me_api and _try_yotpo_api, one page  *)
(* request per step, for any answers of the API.  Only the number of       *)
(* records matters here: pg_all is len(all_reviews).  A response is        *)
(* [status, n, raised]: the HTTP status, the number of entries of its      *)
(* "reviews" list, and whether the request, the JSON decoding or the       *)
(* construction of a record raised.                                        *)
(***************************************************************************)
PagingApis == {"judge.me", "yotpo"}

\* per_page of the adapter
PerPage(api) == IF api = "judge.me" THEN JmPerPage ELSE YoPerPage

\* base_urls of _try_judge_me_api; _try_yotpo_api has one endpoint
BaseUrls(api) == IF api = "judge.me" THEN JmBaseUrls ELSE 1

PageResponse(status, n, raised) ==
    [status |-> status, n |-> n, raised |-> raised]

\* the page sizes an API answers with: none, one, just below a full page, a
\* full page, and more than it was asked for
PageSizes(per_page) == {0, 1, per_page - 1, per_page, per_page + 1}

PageResponses(per_page) ==
    {PageResponse(404, 0, FALSE), PageResponse(200, per_page, TRUE)}
    \cup {PageResponse(200, n, FALSE) : n \in PageSizes(per_page)}

\* faulty variant: one more page is requested when the quota is just reached
WhileBelowQuotaInclusive(all, max) == all <= max

\* "while len(all_reviews) < self.max_reviews"
WhileBelowQuota(all, max) == all < max

\* the records of a page that pass "if len(all_reviews) >= self.max_reviews:
\* break": all_reviews does not grow while the page is read
PageTake(all, n, max) == IF all >= max THEN 0 ELSE n

\* len(page_reviews) after the page: nothing on an error status, and
\* nothing is extended when the page raised
PageReviews(resp, all, max) ==
    IF resp.status = 200 /\ ~resp.raised THEN PageTake(all, resp.n, max)
    ELSE 0

\* the loop goes on to the next page: no break was taken
NextPageWanted(api, resp, all, max) ==
    /\ resp.status = 200
    /\ ~resp.raised
    /\ PageReviews(resp, all, max) >= PerPage(api)

InitPaging ==
    /\ pg_api \in PagingApis
    /\ pg_max \in {TierLimitOf(Lower(t)) : t \in TierInputs}
    /\ pg_url = 1
    /\ pg_page = 1
    /\ pg_all = 0
    /\ pg_log = <<>>
    /\ pg_pc = "paging"
    /\ ScrapeIdle
    /\ DedupIdle
    /\ CustomerIdle
    /\ QualityIdle
    /\ ConfidenceIdle
    /\ ConvertIdle
    /\ SeleniumIdle
    /\ YoutubeIdle

\* after the while loop: Judge.me returns what it has or goes on to the next
\* base URL, Yotpo returns
AfterLoop(all) ==
    IF all = 0 /\ pg_url < BaseUrls(pg_api)
    THEN /\ pg_url' = pg_url + 1
         /\ pg_page' = 1
         /\ pg_pc' = "paging"
    ELSE /\ pg_pc' = "returned"
         /\ UNCHANGED <<pg_url, pg_page>>

\* one iteration of the while loop: the request and what is done with the
\* answer
RequestPage ==
    /\ pg_pc = "paging"
    /\ WhileBelowQuota(pg_all, pg_max)
    /\ \E resp \in PageResponses(PerPage(pg_api)) :
         LET all == pg_all + PageReviews(resp, pg_all, pg_max)
         IN /\ pg_log' = Append(pg_log,
                                [url |-> pg_url, page |-> pg_page,
                                 status |-> resp.status, n |-> resp.n,
                                 raised |-> resp.raised, before |-> pg_all])
            /\ pg_all' = all
            /\ IF NextPageWanted(pg_api, resp, pg_all, pg_max)
               THEN /\ pg_page' = pg_page + 1
                    /\ UNCHANGED <<pg_url, pg_pc>>
               ELSE AfterLoop(all)
    /\ UNCHANGED <<pg_api, pg_max>>
    /\ UNCHANGED restOfPaging

\* the while condition is false
QuotaReached ==
    /\ pg_pc = "paging"
    /\ ~WhileBelowQuota(pg_all, pg_max)
    /\ AfterLoop(pg_all)
    /\ UNCHANGED <<pg_api, pg_max, pg_all, pg_log>>
    /\ UNCHANGED restOfPaging

NextPaging ==
    \/ RequestPage
    \/ QuotaReached

SpecPaging == InitPaging /\ [][NextPaging]_vars

\* the adapter keeps running: every request ends with an answer, a timeout
\* (timeout=10) or an exception, and the loop takes its next step
SpecPagingFair == SpecPaging /\ WF_vars(NextPaging)

\* every answer held at most per_page records
WithinPerPage ==
    \A i \in 1..Len(pg_log) : pg_log[i].n <= PerPage(pg_api)

\* C24: an API adapter whose pages hold at most per_page records each
\* returns at most max_reviews records.
C24_AdapterWithinQuota ==
    (pg_pc = "returned" /\ WithinPerPage) => pg_all <= pg_max

\* ceil(a / b)
CeilDiv(a, b) == (a + b - 1) \div b

\* the requests made to base URL u
RequestsTo(u) == {i \in 1..Len(pg_log) : pg_log[i].url = u}

\* len(all_reviews) after request i
TotalAfter(i) ==
    pg_log[i].before +
    (IF pg_log[i].status = 200 /\ ~pg_log[i].raised THEN pg_log[i].n ELSE 0)

PagesInOrder ==
    \A i \in 1..Len(pg_log) :
        IF i = 1 \/ pg_log[i].url # pg_log[i - 1].url
        THEN pg_log[i].page = 1
        ELSE /\ pg_log[i].page = pg_log[i - 1].page + 1
             /\ pg_log[i - 1].status = 200
             /\ ~pg_log[i - 1].raised
             /\ pg_log[i - 1].n >= PerPage(pg_api)
             /\ TotalAfter(i - 1) < pg_max

PagesBounded ==
    \A u \in 1..BaseUrls(pg_api) :
        Cardinality(RequestsTo(u)) <= CeilDiv(pg_max, PerPage(pg_api))

\* C26: pages are requested in increasing order, page p+1 only after page p
\* answered 200 with a full page while the running total is below
\* max_reviews; at most ceil(max_reviews / per_page) pages are requested per
\* base URL, and the adapter returns.
C26_PaginationBounded ==
    /\ [](PagesInOrder /\ PagesBounded)
    /\ <>(pg_pc = "returned")

\* four full pages of Judge.me on one base URL fill the quota of 200
C26_Witness ==
    /\ pg_pc = "returned"
    /\ pg_api = "judge.me"
    /\ pg_max = HigherLimit
    /\ Len(pg_log) = 4
    /\ \A i \in 1..4 : pg_log[i].url = 1 /\ pg_log[i].page = i
    /\ pg_all >= pg_max


(***************************************************************************)
(* _extract_reviews_with_pagination on a rendered page of any kind.        *)
(***************************************************************************)
MaxShown == 12

MaxViews == 3

\* rendered pages: no review element or some, with or without elements that
\* repeat a text or its first 50 characters, over 0..MaxViews views, the
\* load-more control staying clickable or not
RenderedPages ==
    { Page(shown, near, dups, pages, sticky) :
        shown \in {0, 1, MaxShown}, near \in 0..1, dups \in 0..1,
        pages \in 0..MaxViews, sticky \in BOOLEAN }

InitSelenium ==
    /\ \E pd \in RenderedPages :
          \E max \in {TierLimitOf(Lower(t)) : t \in TierInputs} :
            sl_in = <<[page |-> pd, max_reviews |-> max]>>
    /\ sl_out = <<>>
    /\ sl_pc = "start"
    /\ ScrapeIdle
    /\ DedupIdle
    /\ CustomerIdle
    /\ QualityIdle
    /\ ConfidenceIdle
    /\ ConvertIdle
    /\ PagingIdle
    /\ YoutubeIdle

\* self._extract_reviews_with_pagination() on the page the driver shows
CallExtractReviewsWithPagination ==
    /\ sl_pc = "start"
    /\ sl_out' = <<ExtractReviewsWithPagination(sl_in[1].page, 1,
                                                sl_in[1].max_reviews)>>
    /\ sl_pc' = "done"
    /\ UNCHANGED sl_in
    /\ UNCHANGED restOfSelenium

NextSelenium == CallExtractReviewsWithPagination

SpecSelenium == InitSelenium /\ [][NextSelenium]_vars

\* C25: _extract_reviews_with_pagination returns after at most 10 extraction
\* attempts, with at most max_reviews reviews and no two reviews sharing the
\* first 50 characters of their text.
C25_PaginationCeiling ==
    sl_pc = "done" =>
        LET out == sl_out[1]
        IN /\ out.attempts <= 10
           /\ Len(out.reviews) <= sl_in[1].max_reviews
           /\ \A i, j \in 1..Len(out.reviews) :
                 i # j => Key50(out.reviews[i].text) # Key50(out.reviews[j].text)

\* the control stayed clickable and the page gave nothing new after the
\* first attempt: the ceiling of 10 attempts ended the loop
C25_Witness ==
    /\ sl_pc = "done"
    /\ sl_in[1].page.sticky
    /\ sl_in[1].page.near = 1
    /\ sl_out[1].attempts = 10
    /\ sl_out[1].reviews # <<>>
    /\ Len(sl_out[1].reviews) < sl_in[1].max_reviews


(***************************************************************************)
(* The summary counters of scrape_customer_and_competitors.                *)
(***************************************************************************)
\* C27: after scrape_customer_and_competitors with K competitor URLs,
\* stores_scraped is 1 + K, successful_scrapes + failed_scrapes is
\* stores_scraped, and successful_scrapes is below stores_scraped whenever a
\* target failed.
C27_SummaryAccounts ==
    MultiStoreReturned =>
        LET summary == scraped_data.summary
        IN /\ summary.stores_scraped = 1 + NumCompetitors
           /\ summary.successful_scrapes + summary.failed_scrapes =
                 summary.stores_scraped
           /\ summary.failed_scrapes > 0 =>
                 summary.successful_scrapes < summary.stores_scraped


(***************************************************************************)
(* The below-minimum signals of the report.                                *)
(***************************************************************************)
HasBelowMinimumNote ==
    \E i \in 1..Len(Report.metadata.processing_notes) :
        Report.metadata.processing_notes[i] = BelowMinimumNote

\* C28: in every report of scrape_and_integrate the below-minimum warning
\* is among metadata.processing_notes exactly when
\* data_quality.has_minimum_reviews is false, that is when the report holds
\* fewer than 20 reviews.
C28_BelowMinimumSignalsAgree ==
    Reported =>
        /\ HasBelowMinimumNote <=> ~Report.data_quality.has_minimum_reviews
        /\ Report.data_quality.has_minimum_reviews <=> Len(Report.reviews) >= 20


(***************************************************************************)
(* The review ids of scrape_customer_site.                                 *)
(***************************************************************************)
\* C29: the review_id values of the reviews scrape_customer_site returns
\* are pairwise distinct, over the main page and every review page scraped.
C29_CustomerIdsUnique ==
    CustomerScraped =>
      \A i, j \in 1..Len(cs_result.reviews) :
         i # j => cs_result.reviews[i].review_id # cs_result.reviews[j].review_id


(***************************************************************************)
(* YouTubeQuotaManager and the two methods of YouTubeCommentScraper that   *)
(* spend quota.  get_video_comments is followed request by request; an     *)
(* answer of the API is the number of its items and whether it carries a   *)
(* nextPageToken, or an exception.                                         *)
(***************************************************************************)
MaxQuota == 10000

SearchCost == 100

CommentThreadsCost == 1

CommentsPerRequest == 20

MaxCommentsArg == 3

\* self.operation_costs.get(operation, 1) * count
OperationCost(operation, count) ==
    (CASE operation = "search" -> SearchCost
       [] operation = "comment_threads" -> CommentThreadsCost
       [] operation = "videos" -> 1
       [] OTHER -> 1) * count

\* YouTubeQuotaManager.can_perform_operation
CanPerformOperation(quota_used, operation, count) ==
    quota_used + OperationCost(operation, count) <= MaxQuota

\* YouTubeQuotaManager.record_operation
RecordOperation(quota_used, operation, count) ==
    quota_used + OperationCost(operation, count)

\* YouTubeQuotaManager.get_remaining_quota
RemainingQuota(quota_used) == MaxQuota - quota_used

\* the max_comments a caller passes
MaxCommentsArgs == {1, MaxCommentsArg}

\* YouTubeCommentScraper(api_key) constructed
InitYoutube ==
    /\ yt_quota_used = 0
    /\ yt_max_comments = 0
    /\ yt_fetched = 0
    /\ yt_pc = "ready"
    /\ ScrapeIdle
    /\ DedupIdle
    /\ CustomerIdle
    /\ QualityIdle
    /\ ConfidenceIdle
    /\ ConvertIdle
    /\ PagingIdle
    /\ SeleniumIdle

\* search_videos_by_keyword: without quota it returns at once; the request
\* is recorded when execute() returned
SearchVideosByKeyword ==
    /\ yt_pc = "ready"
    /\ \E raised \in BOOLEAN :
         yt_quota_used' =
            IF CanPerformOperation(yt_quota_used, "search", 1) /\ ~raised
            THEN RecordOperation(yt_quota_used, "search", 1)
            ELSE yt_quota_used
    /\ UNCHANGED <<yt_max_comments, yt_fetched, yt_pc>>
    /\ UNCHANGED restOfYoutube

\* get_video_comments up to its while loop
BeginGetVideoComments ==
    /\ yt_pc = "ready"
    /\ \E max_comments \in MaxCommentsArgs :
         yt_max_comments' =
            IF CanPerformOperation(yt_quota_used, "comment_threads", max_comments)
            THEN max_comments
            ELSE Min(max_comments, RemainingQuota(yt_quota_used))
    /\ yt_fetched' = 0
    /\ yt_pc' = "comments"
    /\ UNCHANGED yt_quota_used
    /\ UNCHANGED restOfYoutube

\* one iteration of the while loop of get_video_comments; the model stops
\* following the loop once quota_used is above max_quota
RequestCommentThreads ==
    /\ yt_pc = "comments"
    /\ yt_fetched < yt_max_comments
    /\ yt_quota_used <= MaxQuota
    /\ \/ \* request.execute() raised: return []
          /\ yt_pc' = "ready"
          /\ UNCHANGED <<yt_quota_used, yt_fetched>>
       \/ \E items \in {0, 1, Min(CommentsPerRequest,
                                     yt_max_comments - yt_fetched)} :
            \E next_page_token \in BOOLEAN :
              /\ yt_quota_used' =
                    RecordOperation(yt_quota_used, "comment_threads", 1)
              /\ yt_fetched' = Min(yt_fetched + items, yt_max_comments)
              /\ yt_pc' = IF next_page_token THEN "comments" ELSE "ready"
    /\ UNCHANGED yt_max_comments
    /\ UNCHANGED restOfYoutube

\* the while condition is false: return comments
ReturnComments ==
    /\ yt_pc = "comments"
    /\ yt_fetched >= yt_max_comments
    /\ yt_pc' = "ready"
    /\ UNCHANGED <<yt_quota_used, yt_max_comments, yt_fetched>>
    /\ UNCHANGED restOfYoutube

NextYoutube ==
    \/ SearchVideosByKeyword
    \/ BeginGetVideoComments
    \/ RequestCommentThreads
    \/ ReturnComments

SpecYoutube == InitYoutube /\ [][NextYoutube]_vars

\* C30: whatever the calls made and whatever the API answers, quota_used
\* never exceeds max_quota (10000).
C30_QuotaNeverExceeded == yt_quota_used <= 10000

====
